---- MODULE Spec2Model ----
(***************************************************************************)
(* Model of the drag-swing / settle animation engine of perfect-dnd.       *)
(*                                                                         *)
(* Numbers.  JavaScript numbers are modelled as fixed-point integers with  *)
(* four decimals: a rotation of 1deg, a scale of 1.0 and a length of 1px   *)
(* are all written 10000; a velocity of 1 unit/s is 10000.  Stiffness,     *)
(* damping and mass are plain integers, times are integer milliseconds.    *)
(* Products that the code divides (x / mass, x * dt / 1000) are divided    *)
(* with Quot, which rounds toward zero.                                    *)
(*                                                                         *)
(* Time.  The controllers read performance.now() and keep timestamps only  *)
(* to subtract them from a later performance.now().  The controller        *)
(* specifications therefore keep the clock origin at the present           *)
(* (PerformanceNow = 0) and Rebase every stored timestamp when time        *)
(* passes; a timestamp older than the largest span it is ever compared     *)
(* with is kept at that span.  The spring specification (SpecSpring) calls *)
(* step with absolute timestamps.                                          *)
(***************************************************************************)
EXTENDS Integers, Sequences, FiniteSets, TLC

VARIABLES
    spring,     \* SpecSpring: one createLiveSpring instance
    call,       \* SpecSpring: the last call made on it (op, argument, state before, result)
    settle,     \* the SettlingOverlay component: props, refs, DOM styles, pending frames
    swing,      \* the useDragSwing hook of the drag overlay: refs, springs, pending frames
    variant,    \* the useDragSwing variant built on animateSpring
    store,      \* the drag fields of the MobX store shared by the page and the overlays
    tracker,    \* the pointer tracker module: its slot and the calls made on it
    sensor      \* one TrackedPointerSensor instance: its fields, listeners and timer

vars == <<spring, call, settle, swing, variant, store, tracker, sensor>>

springVars == <<spring, call>>

\* what the actions of one component leave alone
besidesSpring == <<settle, swing, variant, store, tracker, sensor>>

besidesSettle == <<spring, call, swing, variant, store, tracker, sensor>>

besidesSwing == <<spring, call, settle, variant, store, tracker, sensor>>

besidesVariant == <<spring, call, settle, swing, store, tracker, sensor>>

besidesApp == <<spring, call, variant, tracker, sensor>>

besidesTracker == <<spring, call, settle, swing, variant, store, sensor>>

besidesSensor == <<spring, call, settle, swing, variant, store>>

besidesStore == <<spring, call, settle, swing, variant, tracker, sensor>>

\* null in a slot that otherwise holds a number (a timestamp, a frame handle)
NULL == -1000000000

\* Body applied to the value of `value`, which is computed once
With(value, Body(_)) == CHOOSE result \in {Body(v) : v \in {value}} : TRUE

Abs(x) == IF x < 0 THEN -x ELSE x

Min(a, b) == IF a < b THEN a ELSE b

Max(a, b) == IF a > b THEN a ELSE b

Sign(x) == IF x > 0 THEN 1 ELSE IF x < 0 THEN -1 ELSE 0

\* a / b on fixed-point numbers, rounded toward zero
Quot(a, b) == Sign(a) * Sign(b) * (Abs(a) \div Abs(b))

\* x * dt with dt = deltaTime / 1000 (milliseconds to seconds), rounded toward zero;
\* the product is taken in two parts so that it stays within 32 bits
TimesDt(x, deltaTime) ==
    Sign(x) * Sign(deltaTime)
        * ((Abs(x) \div 1000) * Abs(deltaTime) + ((Abs(x) % 1000) * Abs(deltaTime)) \div 1000)

-----------------------------------------------------------------------------
(* lib/spring: constants                                                   *)

SPRING_DEFAULTS == [stiffness |-> 100, damping |-> 10, mass |-> 1]

SCALE_SPRING_CONFIG == [stiffness |-> 550, damping |-> 30, restSpeed |-> 100000]

POSITION_SPRING_CONFIG ==
    [stiffness |-> 200, damping |-> 20, restSpeed |-> 10000, restDistance |-> 5000]

DEFAULT_REST_SPEED == 20000

DEFAULT_REST_DISTANCE == 5000

MAX_STEP_MS == 64

\* config.key ?? dflt
OrDefault(config, key, dflt) == IF key \in DOMAIN config THEN config[key] ELSE dflt

-----------------------------------------------------------------------------
(* lib/spring: createLiveSpring                                            *)

createLiveSpring(config) ==
    [ configState |->
        [ stiffness    |-> OrDefault(config, "stiffness", SPRING_DEFAULTS.stiffness),
          damping      |-> OrDefault(config, "damping", SPRING_DEFAULTS.damping),
          mass         |-> OrDefault(config, "mass", SPRING_DEFAULTS.mass),
          restSpeed    |-> OrDefault(config, "restSpeed", DEFAULT_REST_SPEED),
          restDistance |-> OrDefault(config, "restDistance", DEFAULT_REST_DISTANCE) ],
      currentValue    |-> 0,
      currentVelocity |-> 0,
      targetValue     |-> 0,
      lastTime        |-> NULL ]

setTarget(s, target) == [s EXCEPT !.targetValue = target]

\* (mutant of setCurrent: the clock of the previous step is kept)
setCurrent_keepsClock(s, value) ==
    [s EXCEPT !.currentValue = value, !.currentVelocity = 0]

setCurrent(s, value) ==
    [s EXCEPT !.currentValue = value, !.currentVelocity = 0, !.lastTime = NULL]

Integrate_cappedAt128(s, now) ==
    With(Min(now - s.lastTime, 2 * MAX_STEP_MS), LAMBDA deltaTime :
    With(s.currentValue - s.targetValue, LAMBDA displacement :
    With(-s.configState.stiffness * displacement, LAMBDA springForce :
    With(-s.configState.damping * s.currentVelocity, LAMBDA dampingForce :
    With(Quot(springForce + dampingForce, s.configState.mass), LAMBDA acceleration :
    With(s.currentVelocity + TimesDt(acceleration, deltaTime), LAMBDA velocity :
    With(s.currentValue + TimesDt(velocity, deltaTime), LAMBDA value :
    With(/\ Abs(velocity) < s.configState.restSpeed
         /\ Abs(value - s.targetValue) < s.configState.restDistance, LAMBDA isAtRest :
        [ spring |-> [s EXCEPT !.lastTime = now,
                               !.currentValue = IF isAtRest THEN s.targetValue ELSE value,
                               !.currentVelocity = IF isAtRest THEN 0 ELSE velocity],
          value    |-> IF isAtRest THEN s.targetValue ELSE value,
          velocity |-> IF isAtRest THEN 0 ELSE velocity,
          done     |-> isAtRest ]))))))))

\* The integration of one step whose previous step was at s.lastTime.
Integrate(s, now) ==
    With(Min(now - s.lastTime, MAX_STEP_MS), LAMBDA deltaTime :
    With(s.currentValue - s.targetValue, LAMBDA displacement :
    With(-s.configState.stiffness * displacement, LAMBDA springForce :
    With(-s.configState.damping * s.currentVelocity, LAMBDA dampingForce :
    With(Quot(springForce + dampingForce, s.configState.mass), LAMBDA acceleration :
    With(s.currentVelocity + TimesDt(acceleration, deltaTime), LAMBDA velocity :
    With(s.currentValue + TimesDt(velocity, deltaTime), LAMBDA value :
    With(/\ Abs(velocity) < s.configState.restSpeed
         /\ Abs(value - s.targetValue) < s.configState.restDistance, LAMBDA isAtRest :
        [ spring |-> [s EXCEPT !.lastTime = now,
                               !.currentValue = IF isAtRest THEN s.targetValue ELSE value,
                               !.currentVelocity = IF isAtRest THEN 0 ELSE velocity],
          value    |-> IF isAtRest THEN s.targetValue ELSE value,
          velocity |-> IF isAtRest THEN 0 ELSE velocity,
          done     |-> isAtRest ]))))))))

\* The first step after construction or setCurrent: records the time only.
ColdStart(s, now) ==
    [ spring   |-> [s EXCEPT !.lastTime = now],
      value    |-> s.currentValue,
      velocity |-> s.currentVelocity,
      done     |-> FALSE ]

\* step(now): returns [spring |-> the spring afterwards, value, velocity, done]
step(s, now) ==
    IF s.lastTime = NULL THEN ColdStart(s, now) ELSE Integrate(s, now)

reset(s) ==
    [s EXCEPT !.currentValue = 0, !.currentVelocity = 0, !.targetValue = 0,
              !.lastTime = NULL]

setConfig_restarts(s, nextConfig) ==
    [s EXCEPT !.configState =
                [k \in DOMAIN s.configState |-> OrDefault(nextConfig, k, s.configState[k])],
              !.currentVelocity = 0,
              !.lastTime = NULL]

\* setConfig(nextConfig): only the keys nextConfig carries are replaced
setConfig(s, nextConfig) ==
    [s EXCEPT !.configState =
        [k \in DOMAIN s.configState |-> OrDefault(nextConfig, k, s.configState[k])]]

getValue(s) == s.currentValue

getTarget(s) == s.targetValue

\* a spring that never satisfies the rest thresholds once displaced
NeverRestConfig == [stiffness |-> 0, damping |-> 0, restSpeed |-> 20000, restDistance |-> 5000]

\* a spring that moves like the default rotation spring but never counts as at rest
NeverRestThresholds ==
    [stiffness |-> 100, damping |-> 10, mass |-> 1, restSpeed |-> 0, restDistance |-> 0]

RotationSpringDefault ==
    [stiffness |-> SPRING_DEFAULTS.stiffness, damping |-> SPRING_DEFAULTS.damping,
     mass |-> SPRING_DEFAULTS.mass, restSpeed |-> 20000, restDistance |-> 5000]

ScaleSpringDefault ==
    [stiffness |-> SCALE_SPRING_CONFIG.stiffness, damping |-> SCALE_SPRING_CONFIG.damping,
     restSpeed |-> SCALE_SPRING_CONFIG.restSpeed, restDistance |-> 10]

-----------------------------------------------------------------------------
(* Time and animation frames                                               *)

\* performance.now(): the clock origin is kept at the present
PerformanceNow == 0

\* A stored timestamp after d more milliseconds have passed.  It is only ever
\* subtracted from performance.now() and compared with (or capped at) horizon.
Rebase(ts, d, horizon) == IF ts = NULL THEN NULL ELSE Max(ts - d, -horizon)

RebaseSpring(s, d) == [s EXCEPT !.lastTime = Rebase(@, d, MAX_STEP_MS)]

\* the handles of the callbacks in a frame queue
Handles(queue) == {cb.id : cb \in queue}

\* requestAnimationFrame returns a handle that no pending callback and no ref holds
FreshHandle(queue, ref) ==
    CHOOSE id \in 1..(Cardinality(queue) + 2) :
        /\ id \notin Handles(queue) \cup {ref}
        /\ \A other \in 1..(id - 1) : other \in Handles(queue) \cup {ref}

\* cancelAnimationFrame(id)
cancelAnimationFrame(queue, id) == {cb \in queue : cb.id # id}

-----------------------------------------------------------------------------
(* components/dnd-kit/settling-overlay: SettlingOverlay                    *)

MAX_SETTLE_FRAMES == 120

MAX_SETTLE_DURATION_MS == 2000

NoRect == [left |-> NULL, top |-> NULL, width |-> NULL, height |-> NULL]

\* The component before it is rendered.  `obs` is not program state: it records
\* what the current run of the layout effect has done (which branch it took, how
\* often it invoked onAnimationComplete, how its loop ended) and whether a callback
\* of a torn-down run still ran.
SettleAbsentState ==
    [ mounted           |-> FALSE,
      rect              |-> NoRect,
      rotation          |-> 0,
      scale             |-> 10000,
      settings          |-> [rotationSpring |-> RotationSpringDefault,
                             scaleSpring |-> ScaleSpringDefault],
      targetRect        |-> NoRect,
      animationFrameRef |-> NULL,
      rafQueue          |-> {},
      containerTransform |-> [x |-> NULL, y |-> NULL],
      wrapperTransform  |-> [scale |-> NULL, rotate |-> NULL],
      obs               |-> [ran |-> "none", calls |-> 0, exit |-> "none", frames |-> 0,
                             exitElapsed |-> 0, stepped |-> FALSE, stalls |-> 0,
                             lateFrame |-> FALSE, lateCall |-> FALSE, lateWrite |-> FALSE] ]

\* the refs are attached when the component rendered its elements (rect non-null)
SettleRefsAttached(c) == c.mounted /\ c.rect # NoRect

\* onAnimationComplete(), invoked by the closure env (or, with env = the effect
\* body itself, by the missing-target branch)
onAnimationComplete_dropped(c, live) == c

onAnimationComplete(c, live) ==
    IF live THEN [c EXCEPT !.obs.calls = @ + 1] ELSE [c EXCEPT !.obs.lateCall = TRUE]

\* finish(): w = [c |-> component, env |-> closure of the effect run]
finish(w) ==
    IF w.env.didComplete THEN w
    ELSE [w EXCEPT !.env.didComplete = TRUE, !.c = onAnimationComplete(w.c, w.env.live)]

setFinalStyles_skipped(w) == w

setFinalStyles(w) ==
    IF SettleRefsAttached(w.c)
    THEN [w EXCEPT !.c.containerTransform = [x |-> w.env.targetLeft, y |-> w.env.targetTop],
                   !.c.wrapperTransform = [scale |-> 10000, rotate |-> 0],
                   !.c.obs.lateWrite = @ \/ ~w.env.live]
    ELSE w

SettleWatchdog_offByOne(frameCount, duration) ==
    frameCount > MAX_SETTLE_FRAMES + 1 \/ duration > MAX_SETTLE_DURATION_MS

\* the safety condition of animate
SettleWatchdog(frameCount, duration) ==
    frameCount > MAX_SETTLE_FRAMES \/ duration > MAX_SETTLE_DURATION_MS

\* animate(): one frame callback of the closure w.env.
\* Returns w with `again` telling whether it requested another frame.
SettleAnimate(w0) ==
    With(PerformanceNow, LAMBDA now :
    With(IF w0.env.settleStartTime = NULL THEN now ELSE w0.env.settleStartTime, LAMBDA start :
    With(w0.env.settleFrameCount + 1, LAMBDA count :
    With([w0 EXCEPT !.env.settleStartTime = start,
                    !.env.settleFrameCount = count,
                    !.c.obs.frames = IF w0.env.live THEN count ELSE @,
                    !.c.obs.exitElapsed = IF w0.env.live THEN now - start ELSE @,
                    !.c.obs.lateFrame = @ \/ ~w0.env.live], LAMBDA w1 :
        IF SettleWatchdog(count, now - start)
        THEN With(finish(setFinalStyles(w1)), LAMBDA w2 :
                [c     |-> [w2.c EXCEPT !.animationFrameRef = NULL,
                                        !.obs.exit = IF w1.env.live THEN "watchdog" ELSE @],
                 env   |-> w2.env,
                 again |-> FALSE])
        ELSE
        With(step(w1.env.xSpring, now), LAMBDA xState :
        With(step(w1.env.ySpring, now), LAMBDA yState :
        With(step(w1.env.rotationSpring, now), LAMBDA rotationState :
        With(step(w1.env.scaleSpring, now), LAMBDA scaleState :
        With([w1.env EXCEPT !.xSpring = xState.spring,
                            !.ySpring = yState.spring,
                            !.rotationSpring = rotationState.spring,
                            !.scaleSpring = scaleState.spring], LAMBDA env2 :
        With(IF SettleRefsAttached(w1.c)
             THEN [w1.c EXCEPT
                    !.containerTransform = [x |-> xState.value, y |-> yState.value],
                    !.wrapperTransform = [scale |-> scaleState.value,
                                          rotate |-> rotationState.value],
                    !.obs.lateWrite = @ \/ ~w1.env.live,
                    !.obs.stepped = @ \/ w1.env.live]
             ELSE [w1.c EXCEPT !.obs.stepped = @ \/ w1.env.live], LAMBDA c2 :
        With(xState.done /\ yState.done /\ rotationState.done /\ scaleState.done,
             LAMBDA allDone :
            IF allDone
            THEN With(finish(setFinalStyles([c |-> c2, env |-> env2])), LAMBDA w3 :
                    [c     |-> [w3.c EXCEPT !.animationFrameRef = NULL,
                                            !.obs.exit = IF env2.live THEN "rest" ELSE @],
                     env   |-> w3.env,
                     again |-> FALSE])
            ELSE [c |-> c2, env |-> env2, again |-> TRUE])))))))))))

\* animationFrameRef.current = requestAnimationFrame(animate)
SettleRequestFrame(c, env) ==
    LET id == FreshHandle(c.rafQueue, c.animationFrameRef)
    IN  [c EXCEPT !.animationFrameRef = id,
                  !.rafQueue = @ \cup {[id |-> id, env |-> env]}]

SettleCleanup_noCancel(c) ==
    [c EXCEPT !.animationFrameRef = NULL,
              !.rafQueue = {[cb EXCEPT !.env.live = FALSE] : cb \in @}]

\* The cleanup the effect returned (only the run that reached the loop returns one).
\* Callbacks it leaves pending belong to a torn-down run from now on.
SettleCleanup(c) ==
    IF c.obs.ran # "loop" THEN c
    ELSE LET cancelled == IF c.animationFrameRef # NULL
                          THEN cancelAnimationFrame(c.rafQueue, c.animationFrameRef)
                          ELSE c.rafQueue
         IN  [c EXCEPT !.animationFrameRef = NULL,
                       !.rafQueue = {[cb EXCEPT !.env.live = FALSE] : cb \in cancelled}]

TargetMissing_never(c) == FALSE

\* !targetElement: no element carries data-settling-target for the block
TargetMissing(c) == c.targetRect = NoRect

\* The body of the layout effect, run after a render with the props now in c.
SettleEffect(c0) ==
    LET c == [c0 EXCEPT !.obs.ran = "guard", !.obs.calls = 0, !.obs.exit = "none",
                        !.obs.frames = 0, !.obs.exitElapsed = 0, !.obs.stepped = FALSE,
                        !.obs.stalls = 0]
    IN  IF ~SettleRefsAttached(c) THEN c
        ELSE IF TargetMissing(c)
        THEN [onAnimationComplete(c, TRUE) EXCEPT !.obs.ran = "missing", !.obs.exit = "missing"]
        ELSE
        LET targetCenterX == c.targetRect.left + Quot(c.targetRect.width, 2)
            targetCenterY == c.targetRect.top + Quot(c.targetRect.height, 2)
            targetLeft    == targetCenterX - Quot(c.rect.width, 2)
            targetTop     == targetCenterY - Quot(c.rect.height, 2)
            env == [ xSpring  |-> setTarget(setCurrent(createLiveSpring(POSITION_SPRING_CONFIG),
                                                       c.rect.left), targetLeft),
                     ySpring  |-> setTarget(setCurrent(createLiveSpring(POSITION_SPRING_CONFIG),
                                                       c.rect.top), targetTop),
                     rotationSpring |->
                        setTarget(setCurrent(createLiveSpring(c.settings.rotationSpring),
                                             c.rotation), 0),
                     scaleSpring |->
                        setTarget(setCurrent(createLiveSpring(c.settings.scaleSpring),
                                             c.scale), 10000),
                     settleStartTime  |-> NULL,
                     settleFrameCount |-> 0,
                     didComplete      |-> FALSE,
                     targetLeft       |-> targetLeft,
                     targetTop        |-> targetTop,
                     live             |-> TRUE ]
        IN  SettleRequestFrame([c EXCEPT !.obs.ran = "loop"], env)

\* React renders the overlay with new props (or with the same props and a new
\* onAnimationComplete closure): the previous run is cleaned up, the elements take
\* the styles of the props, and the effect runs again.
SettleRenderWith(c, rect, rotation, scale, settings, targetRect) ==
    LET cleaned == SettleCleanup(c)
        styled  ==
            [cleaned EXCEPT
                !.mounted = TRUE, !.rect = rect, !.rotation = rotation, !.scale = scale,
                !.settings = settings, !.targetRect = targetRect,
                !.containerTransform =
                    IF rect = NoRect THEN [x |-> NULL, y |-> NULL]
                    ELSE IF rect # c.rect THEN [x |-> rect.left, y |-> rect.top] ELSE @,
                !.wrapperTransform =
                    IF rect = NoRect THEN [scale |-> NULL, rotate |-> NULL]
                    ELSE IF rect # c.rect \/ rotation # c.rotation \/ scale # c.scale
                         THEN [scale |-> scale, rotate |-> rotation] ELSE @]
    IN  SettleEffect(styled)

\* The overlay is removed from the tree.
SettleUnmountOf(c) ==
    [SettleCleanup(c) EXCEPT !.mounted = FALSE, !.obs.ran = "none",
                             !.containerTransform = [x |-> NULL, y |-> NULL],
                             !.wrapperTransform = [scale |-> NULL, rotate |-> NULL]]

\* d milliseconds pass for the pending callbacks of the overlay
SettleRebase(c, d) ==
    [c EXCEPT !.rafQueue =
        {[cb EXCEPT !.env.settleStartTime = Rebase(@, d, MAX_SETTLE_DURATION_MS + 1),
                    !.env.xSpring = RebaseSpring(@, d),
                    !.env.ySpring = RebaseSpring(@, d),
                    !.env.rotationSpring = RebaseSpring(@, d),
                    !.env.scaleSpring = RebaseSpring(@, d)] : cb \in @}]

\* The browser runs the pending callback cb: it leaves the queue, animate runs and
\* may request the next frame.
SettleRunFrame(c, cb) ==
    With(SettleAnimate([c |-> [c EXCEPT !.rafQueue = @ \ {cb}], env |-> cb.env]), LAMBDA r :
        IF r.again THEN SettleRequestFrame(r.c, r.env) ELSE r.c)

-----------------------------------------------------------------------------
(* lib/spring: velocity estimate                                           *)

VELOCITY_WINDOW_MS == 100

VELOCITY_SCALE == 50

MAX_ROTATION == 450000

ScanBaseline_oldest(history, windowMs, i) == 1

\* The backward scan: the index of the sample the loop stops on, starting at i.
\* It stops on the first sample (from the newest) older than the window, and runs
\* off the front with oldestSample left at history[1].
RECURSIVE ScanBaseline(_, _, _)
ScanBaseline(history, windowMs, i) ==
    IF history[Len(history)].timestamp - history[i].timestamp > windowMs THEN i
    ELSE IF i = 1 THEN 1
    ELSE ScanBaseline(history, windowMs, i - 1)

calculateVelocityFromHistory_zeroAsOneMs(history, windowMs) ==
    IF Len(history) < 2 THEN [x |-> 0, y |-> 0]
    ELSE LET latest       == history[Len(history)]
             oldestSample == history[ScanBaseline(history, windowMs, Len(history))]
             deltaMs      == Max(latest.timestamp - oldestSample.timestamp, 1)
         IN  [x |-> Quot((latest.x - oldestSample.x) * 1000, deltaMs),
              y |-> Quot((latest.y - oldestSample.y) * 1000, deltaMs)]

calculateVelocityFromHistory_perMs(history, windowMs) ==
    IF Len(history) < 2 THEN [x |-> 0, y |-> 0]
    ELSE LET latest       == history[Len(history)]
             oldestSample == history[ScanBaseline(history, windowMs, Len(history))]
             deltaMs      == latest.timestamp - oldestSample.timestamp
         IN  IF deltaMs = 0 THEN [x |-> 0, y |-> 0]
             ELSE [x |-> Quot(latest.x - oldestSample.x, deltaMs),
                   y |-> Quot(latest.y - oldestSample.y, deltaMs)]

\* velocity in units per second
calculateVelocityFromHistory(history, windowMs) ==
    IF Len(history) < 2 THEN [x |-> 0, y |-> 0]
    ELSE LET latest       == history[Len(history)]
             oldestSample == history[ScanBaseline(history, windowMs, Len(history))]
             deltaMs      == latest.timestamp - oldestSample.timestamp
         IN  IF deltaMs = 0 THEN [x |-> 0, y |-> 0]
             ELSE [x |-> Quot((latest.x - oldestSample.x) * 1000, deltaMs),
                   y |-> Quot((latest.y - oldestSample.y) * 1000, deltaMs)]

\* the product of two four-decimal numbers, computed in two parts to stay in 32 bits
Times(a, b) ==
    LET whole == Quot(a, 10000)
    IN  whole * b + Quot((a - whole * 10000) * b, 10000)

velocityToRotation_unclamped(velocityX, velocityScale, maxRotation) ==
    Times(-velocityX, velocityScale)

velocityToRotation(velocityX, velocityScale, maxRotation) ==
    LET rawRotation == Times(-velocityX, velocityScale)
    IN  Sign(rawRotation) * Min(Abs(rawRotation), maxRotation)

DRAG_SWING_DEFAULTS ==
    [ velocityWindowMs |-> VELOCITY_WINDOW_MS,
      velocityScale    |-> VELOCITY_SCALE,
      maxRotation      |-> MAX_ROTATION,
      dragScale        |-> 10400,
      rotationSpring   |-> RotationSpringDefault,
      scaleSpring      |-> ScaleSpringDefault ]

-----------------------------------------------------------------------------
(* hooks/use-drag-swing: useDragSwing (the live-spring controller)         *)

REST_SCALE == 10000

NoPoint == [x |-> NULL, y |-> NULL]

\* The hook instance before its component mounts.  `obs` is not program state: it
\* names the handler that ran last and lists the store calls it made, counts the
\* events this instance has handled, the frames of the current phase (dragging, or
\* settling and after) and its late frames, names the way the loop last exited, and
\* notes callbacks that ran after the unmount.
SwingAbsentState ==
    [ mounted                 |-> FALSE,
      springAnimationFrameRef |-> NULL,
      rafQueue                |-> {},
      positionHistoryRef      |-> <<>>,
      isDraggingRef           |-> FALSE,
      isSettlingRef           |-> FALSE,
      settleStartTimeRef      |-> NULL,
      settleFrameCountRef     |-> 0,
      dragStartPointerRef     |-> NoPoint,
      currentRotationRef      |-> 0,
      currentScaleRef         |-> 10000,
      settingsRef             |-> DRAG_SWING_DEFAULTS,
      rotationSpringRef       |-> createLiveSpring(RotationSpringDefault),
      scaleSpringRef          |-> createLiveSpring(ScaleSpringDefault),
      motionRotate            |-> NULL,
      motionScale             |-> NULL,
      obs                     |-> [handler |-> "none", storeWrites |-> <<>>, acts |-> 0,
                                   frames |-> 0, stalls |-> 0, exit |-> "none",
                                   lateFrame |-> FALSE, lateWrite |-> FALSE] ]

\* the autorun on store.dragSwingSettings
SwingSettingsAutorun(sw, settings) ==
    [sw EXCEPT !.settingsRef = settings,
               !.rotationSpringRef = setConfig(@, settings.rotationSpring),
               !.scaleSpringRef = setConfig(@, settings.scaleSpring)]

updateRotation(sw, value) == IF sw.mounted THEN [sw EXCEPT !.motionRotate = value] ELSE sw

updateScale(sw, value) == IF sw.mounted THEN [sw EXCEPT !.motionScale = value] ELSE sw

SwingRequestFrame(sw) ==
    LET id == FreshHandle(sw.rafQueue, sw.springAnimationFrameRef)
    IN  [sw EXCEPT !.springAnimationFrameRef = id,
                   !.rafQueue = @ \cup {[id |-> id, live |-> TRUE]}]

startSpringAnimation_restarts(sw) ==
    SwingRequestFrame(
        [sw EXCEPT !.rafQueue = {cb \in @ : cb.id # sw.springAnimationFrameRef},
                   !.rotationSpringRef = setCurrent(@, sw.currentRotationRef),
                   !.scaleSpringRef = setCurrent(@, sw.currentScaleRef)])

startSpringAnimation_noGuard(sw) ==
    SwingRequestFrame(
        [sw EXCEPT !.rotationSpringRef = setCurrent(@, sw.currentRotationRef),
                   !.scaleSpringRef = setCurrent(@, sw.currentScaleRef)])

startSpringAnimation(sw) ==
    IF sw.springAnimationFrameRef # NULL THEN sw
    ELSE SwingRequestFrame(
            [sw EXCEPT !.rotationSpringRef = setCurrent(@, sw.currentRotationRef),
                       !.scaleSpringRef = setCurrent(@, sw.currentScaleRef)])

\* the safety check of animate while settling
SwingWatchdog(frameCount, duration) ==
    frameCount > MAX_SETTLE_FRAMES \/ duration > MAX_SETTLE_DURATION_MS

\* the forced exit of animate
SwingForceRest_keepsLoop(sw) ==
    updateScale(updateRotation(
        [sw EXCEPT !.isSettlingRef = FALSE,
                   !.settleStartTimeRef = NULL,
                   !.settleFrameCountRef = 0,
                   !.rotationSpringRef = setTarget(setCurrent(@, 0), 0),
                   !.scaleSpringRef = setTarget(setCurrent(@, REST_SCALE), REST_SCALE),
                   !.obs.exit = "watchdog"], 0), REST_SCALE)

SwingForceRest_staysSettling(sw) ==
    updateScale(updateRotation(
        [sw EXCEPT !.settleStartTimeRef = NULL,
                   !.settleFrameCountRef = 0,
                   !.rotationSpringRef = setTarget(setCurrent(@, 0), 0),
                   !.scaleSpringRef = setTarget(setCurrent(@, REST_SCALE), REST_SCALE),
                   !.springAnimationFrameRef = NULL,
                   !.obs.exit = "watchdog"], 0), REST_SCALE)

SwingForceRest(sw) ==
    updateScale(updateRotation(
        [sw EXCEPT !.isSettlingRef = FALSE,
                   !.settleStartTimeRef = NULL,
                   !.settleFrameCountRef = 0,
                   !.rotationSpringRef = setTarget(setCurrent(@, 0), 0),
                   !.scaleSpringRef = setTarget(setCurrent(@, REST_SCALE), REST_SCALE),
                   !.springAnimationFrameRef = NULL,
                   !.obs.exit = "watchdog"], 0), REST_SCALE)

SwingAnimate_stopsOnEither(sw0) ==
    With(PerformanceNow, LAMBDA now :
    With(IF sw0.isSettlingRef
         THEN [sw0 EXCEPT
                !.settleStartTimeRef = IF @ = NULL THEN now ELSE @,
                !.settleFrameCountRef =
                    (IF sw0.settleStartTimeRef = NULL THEN 0 ELSE @) + 1]
         ELSE sw0, LAMBDA sw1 :
        IF sw1.isSettlingRef
           /\ SwingWatchdog(sw1.settleFrameCountRef, now - sw1.settleStartTimeRef)
        THEN [sw |-> SwingForceRest(sw1), again |-> FALSE]
        ELSE
        With(step(sw1.rotationSpringRef, now), LAMBDA rotationState :
        With(step(sw1.scaleSpringRef, now), LAMBDA scaleState :
        With(updateScale(updateRotation(
                [sw1 EXCEPT !.rotationSpringRef = rotationState.spring,
                            !.scaleSpringRef = scaleState.spring,
                            !.currentRotationRef = rotationState.value,
                            !.currentScaleRef = scaleState.value],
                rotationState.value), scaleState.value), LAMBDA sw2 :
        With(rotationState.done \/ scaleState.done, LAMBDA allSpringsDone :
            IF sw2.isDraggingRef \/ (sw2.isSettlingRef /\ ~allSpringsDone)
            THEN [sw |-> sw2, again |-> TRUE]
            ELSE [sw |-> [sw2 EXCEPT !.isSettlingRef = FALSE,
                                     !.settleStartTimeRef = NULL,
                                     !.settleFrameCountRef = 0,
                                     !.springAnimationFrameRef = NULL,
                                     !.obs.exit = "rest"],
                  again |-> FALSE]))))))

SwingAnimate_restsWhileDragging(sw0) ==
    With(PerformanceNow, LAMBDA now :
    With(IF sw0.isSettlingRef
         THEN [sw0 EXCEPT
                !.settleStartTimeRef = IF @ = NULL THEN now ELSE @,
                !.settleFrameCountRef =
                    (IF sw0.settleStartTimeRef = NULL THEN 0 ELSE @) + 1]
         ELSE sw0, LAMBDA sw1 :
        IF sw1.isSettlingRef
           /\ SwingWatchdog(sw1.settleFrameCountRef, now - sw1.settleStartTimeRef)
        THEN [sw |-> SwingForceRest(sw1), again |-> FALSE]
        ELSE
        With(step(sw1.rotationSpringRef, now), LAMBDA rotationState :
        With(step(sw1.scaleSpringRef, now), LAMBDA scaleState :
        With(updateScale(updateRotation(
                [sw1 EXCEPT !.rotationSpringRef = rotationState.spring,
                            !.scaleSpringRef = scaleState.spring,
                            !.currentRotationRef = rotationState.value,
                            !.currentScaleRef = scaleState.value],
                rotationState.value), scaleState.value), LAMBDA sw2 :
        With(rotationState.done /\ scaleState.done, LAMBDA allSpringsDone :
            IF (sw2.isDraggingRef \/ sw2.isSettlingRef) /\ ~allSpringsDone
            THEN [sw |-> sw2, again |-> TRUE]
            ELSE [sw |-> [sw2 EXCEPT !.isSettlingRef = FALSE,
                                     !.settleStartTimeRef = NULL,
                                     !.settleFrameCountRef = 0,
                                     !.springAnimationFrameRef = NULL,
                                     !.obs.exit = "rest"],
                  again |-> FALSE]))))))

\* animate(): one frame callback.  Returns [sw, again]: again tells whether it
\* requested the next frame.
SwingAnimate(sw0) ==
    With(PerformanceNow, LAMBDA now :
    With(IF sw0.isSettlingRef
         THEN [sw0 EXCEPT
                !.settleStartTimeRef = IF @ = NULL THEN now ELSE @,
                !.settleFrameCountRef =
                    (IF sw0.settleStartTimeRef = NULL THEN 0 ELSE @) + 1]
         ELSE sw0, LAMBDA sw1 :
        IF sw1.isSettlingRef
           /\ SwingWatchdog(sw1.settleFrameCountRef, now - sw1.settleStartTimeRef)
        THEN [sw |-> SwingForceRest(sw1), again |-> FALSE]
        ELSE
        With(step(sw1.rotationSpringRef, now), LAMBDA rotationState :
        With(step(sw1.scaleSpringRef, now), LAMBDA scaleState :
        With(updateScale(updateRotation(
                [sw1 EXCEPT !.rotationSpringRef = rotationState.spring,
                            !.scaleSpringRef = scaleState.spring,
                            !.currentRotationRef = rotationState.value,
                            !.currentScaleRef = scaleState.value],
                rotationState.value), scaleState.value), LAMBDA sw2 :
        With(rotationState.done /\ scaleState.done, LAMBDA allSpringsDone :
            IF sw2.isDraggingRef \/ (sw2.isSettlingRef /\ ~allSpringsDone)
            THEN [sw |-> sw2, again |-> TRUE]
            ELSE [sw |-> [sw2 EXCEPT !.isSettlingRef = FALSE,
                                     !.settleStartTimeRef = NULL,
                                     !.settleFrameCountRef = 0,
                                     !.springAnimationFrameRef = NULL,
                                     !.obs.exit = "rest"],
                  again |-> FALSE]))))))

updateSpringTargets(sw, targetRotation, targetScale) ==
    [sw EXCEPT !.rotationSpringRef = setTarget(@, targetRotation),
               !.scaleSpringRef = setTarget(@, targetScale)]

\* The component mounts with the store's settings: the refs are created, the
\* settings autorun runs once, then the mount effect.
SwingMountWith(sw, settings) ==
    LET fresh == [SwingAbsentState EXCEPT
                    !.mounted = TRUE,
                    !.rafQueue = sw.rafQueue,
                    !.obs.lateFrame = sw.obs.lateFrame,
                    !.obs.lateWrite = sw.obs.lateWrite,
                    !.settingsRef = settings,
                    !.rotationSpringRef = createLiveSpring(settings.rotationSpring),
                    !.scaleSpringRef = createLiveSpring(settings.scaleSpring)]
        auto  == SwingSettingsAutorun(fresh, settings)
        eff   == updateScale(updateRotation(
                    [auto EXCEPT !.isDraggingRef = TRUE,
                                 !.isSettlingRef = FALSE,
                                 !.positionHistoryRef = <<>>,
                                 !.settleStartTimeRef = NULL,
                                 !.settleFrameCountRef = 0,
                                 !.currentRotationRef = 0,
                                 !.currentScaleRef = REST_SCALE], 0), REST_SCALE)
        aimed == [eff EXCEPT !.scaleSpringRef = setTarget(@, eff.settingsRef.dragScale),
                             !.obs.handler = "mount"]
    IN  startSpringAnimation(aimed)

handleDragStart_keepsSettling(sw, trackedPointer, activatorPoint) ==
    LET sw1 == [sw EXCEPT
                  !.dragStartPointerRef =
                      IF trackedPointer # NoPoint THEN trackedPointer ELSE activatorPoint,
                  !.positionHistoryRef = <<>>,
                  !.isDraggingRef = TRUE,
                  !.settleStartTimeRef = NULL,
                  !.settleFrameCountRef = 0,
                  !.scaleSpringRef = setTarget(@, sw.settingsRef.dragScale),
                  !.obs.handler = "start", !.obs.storeWrites = <<>>,
                  !.obs.acts = @ + 1, !.obs.frames = 0, !.obs.exit = "none"]
    IN  startSpringAnimation(sw1)

\* the pointer the activator event carries, or NoPoint
handleDragStart(sw, trackedPointer, activatorPoint) ==
    LET sw1 == [sw EXCEPT
                  !.dragStartPointerRef =
                      IF trackedPointer # NoPoint THEN trackedPointer ELSE activatorPoint,
                  !.positionHistoryRef = <<>>,
                  !.isDraggingRef = TRUE,
                  !.isSettlingRef = FALSE,
                  !.settleStartTimeRef = NULL,
                  !.settleFrameCountRef = 0,
                  !.scaleSpringRef = setTarget(@, sw.settingsRef.dragScale),
                  !.obs.handler = "start", !.obs.storeWrites = <<>>,
                  !.obs.acts = @ + 1, !.obs.frames = 0, !.obs.exit = "none"]
    IN  startSpringAnimation(sw1)

PruneHistory_keepsAll(history, now, windowMs) == history

PruneHistory_keepsOldest(history, now, windowMs) ==
    IF history = <<>> THEN <<>>
    ELSE <<Head(history)>> \o PruneHistory_keepsAll(Tail(history), now, windowMs)

\* positionHistory.filter(entry => now - entry.timestamp < window)
RECURSIVE PruneHistory(_, _, _)
PruneHistory(history, now, windowMs) ==
    IF history = <<>> THEN <<>>
    ELSE IF now - Head(history).timestamp < windowMs
         THEN <<Head(history)>> \o PruneHistory(Tail(history), now, windowMs)
         ELSE PruneHistory(Tail(history), now, windowMs)

\* delta: event.delta; activatorPoint: the pointer of event.activatorEvent or NoPoint
handleDragMove(sw, trackedPointer, delta, activatorPoint) ==
    LET now == PerformanceNow
        pointer ==
            IF trackedPointer # NoPoint THEN trackedPointer
            ELSE IF sw.dragStartPointerRef # NoPoint
                 THEN [x |-> sw.dragStartPointerRef.x + delta.x,
                       y |-> sw.dragStartPointerRef.y + delta.y]
            ELSE IF activatorPoint # NoPoint THEN activatorPoint
            ELSE [x |-> 0, y |-> 0]
        positionHistory ==
            PruneHistory(Append(sw.positionHistoryRef,
                                [x |-> pointer.x, y |-> pointer.y, timestamp |-> now]),
                         now, sw.settingsRef.velocityWindowMs)
        velocity == calculateVelocityFromHistory(positionHistory,
                                                 sw.settingsRef.velocityWindowMs)
        targetRotation == velocityToRotation(velocity.x, sw.settingsRef.velocityScale,
                                             sw.settingsRef.maxRotation)
    IN  [updateSpringTargets(sw, targetRotation, sw.settingsRef.dragScale) EXCEPT
            !.positionHistoryRef = positionHistory,
            !.obs.handler = "move", !.obs.storeWrites = <<>>, !.obs.acts = @ + 1]

\* measured: what the overlay card measures at the drop, [rect, offsetWidth,
\* offsetHeight]; the card is in the overlay whenever the component is mounted
handleDragEnd(sw, measured) ==
    LET sw1 == [updateSpringTargets([sw EXCEPT !.isDraggingRef = FALSE,
                                               !.dragStartPointerRef = NoPoint],
                                    0, REST_SCALE)
                  EXCEPT !.isSettlingRef = TRUE,
                         !.settleStartTimeRef = PerformanceNow,
                         !.settleFrameCountRef = 0]
        rect       == measured.rect
        baseWidth  == IF measured.offsetWidth # 0 THEN measured.offsetWidth ELSE rect.width
        baseHeight == IF measured.offsetHeight # 0 THEN measured.offsetHeight ELSE rect.height
        centerX    == rect.left + Quot(rect.width, 2)
        centerY    == rect.top + Quot(rect.height, 2)
        startRect  == [left |-> centerX - Quot(baseWidth, 2),
                       top |-> centerY - Quot(baseHeight, 2),
                       width |-> baseWidth, height |-> baseHeight]
        writes     == IF sw.mounted
                      THEN << [op |-> "startSettling", rect |-> startRect,
                               rotation |-> sw.currentRotationRef,
                               scale |-> IF sw.currentScaleRef # 0 THEN sw.currentScaleRef
                                         ELSE REST_SCALE] >>
                      ELSE <<>>
    IN  startSpringAnimation(
            [sw1 EXCEPT !.positionHistoryRef = <<>>,
                        !.obs.handler = "end", !.obs.storeWrites = writes,
                        !.obs.acts = @ + 1, !.obs.frames = 0, !.obs.exit = "none"])

SwingCleanup_noCancel(sw) ==
    [sw EXCEPT !.springAnimationFrameRef = NULL,
               !.rafQueue = {[cb EXCEPT !.live = FALSE] : cb \in @}]

\* the unmount cleanup; callbacks it leaves pending outlive the component
SwingCleanup(sw) ==
    LET cancelled == IF sw.springAnimationFrameRef # NULL
                     THEN cancelAnimationFrame(sw.rafQueue, sw.springAnimationFrameRef)
                     ELSE sw.rafQueue
    IN  [sw EXCEPT !.springAnimationFrameRef = NULL,
                   !.rafQueue = {[cb EXCEPT !.live = FALSE] : cb \in cancelled}]

\* The component unmounts: the cleanup runs, then the instance and its elements are
\* gone.  Only the callbacks the cleanup left pending remain.
SwingUnmountOf(sw) ==
    [SwingAbsentState EXCEPT !.rafQueue = SwingCleanup(sw).rafQueue,
                             !.obs.handler = "unmount",
                             !.obs.lateFrame = sw.obs.lateFrame,
                             !.obs.lateWrite = sw.obs.lateWrite]

\* d milliseconds pass
SwingRebase(sw, d) ==
    [sw EXCEPT !.settleStartTimeRef = Rebase(@, d, MAX_SETTLE_DURATION_MS + 1),
               !.rotationSpringRef = RebaseSpring(@, d),
               !.scaleSpringRef = RebaseSpring(@, d),
               !.positionHistoryRef =
                    [i \in DOMAIN @ |-> [@[i] EXCEPT !.timestamp =
                                            Rebase(@, d, VELOCITY_WINDOW_MS + 1)]]]

\* The browser runs the pending callback cb.  A callback that outlived its
\* component finds the refs of the torn-down instance; it is only noted.
SwingRunFrame(sw, cb) ==
    With([sw EXCEPT !.rafQueue = @ \ {cb},
                    !.obs.handler = "frame", !.obs.storeWrites = <<>>,
                    !.obs.frames = IF cb.live THEN @ + 1 ELSE @], LAMBDA taken :
        IF ~cb.live THEN [taken EXCEPT !.obs.lateFrame = TRUE, !.obs.lateWrite = TRUE]
        ELSE With(SwingAnimate(taken), LAMBDA r :
                IF r.again THEN SwingRequestFrame(r.sw) ELSE r.sw))

-----------------------------------------------------------------------------
(* lib/spring.ts: createSpring, animateSpring (the fixed-step spring)      *)

EPSILON == 10

createSpring(config) ==
    [ stiffness    |-> config.stiffness,
      damping      |-> config.damping,
      mass         |-> OrDefault(config, "mass", 1),
      currentValue |-> 0,
      targetValue  |-> 0,
      velocity     |-> 0 ]

isAtRest(s) ==
    Abs(s.currentValue - s.targetValue) < EPSILON /\ Abs(s.velocity) < EPSILON

\* tick(dt), dt given in milliseconds: returns [spring, stillAnimating]
tick(s, deltaTime) ==
    With(s.currentValue - s.targetValue, LAMBDA displacement :
    With(-s.stiffness * displacement, LAMBDA springForce :
    With(-s.damping * s.velocity, LAMBDA dampingForce :
    With(Quot(springForce + dampingForce, s.mass), LAMBDA acceleration :
    With(s.velocity + TimesDt(acceleration, deltaTime), LAMBDA velocity :
    With(s.currentValue + TimesDt(velocity, deltaTime), LAMBDA value :
    With([s EXCEPT !.velocity = velocity, !.currentValue = value], LAMBDA moved :
        IF isAtRest(moved)
        THEN [spring |-> [moved EXCEPT !.currentValue = s.targetValue, !.velocity = 0],
              stillAnimating |-> FALSE]
        ELSE [spring |-> moved, stillAnimating |-> TRUE])))))))

-----------------------------------------------------------------------------
(* useDragSwing, the variant that restarts animateSpring on every move     *)

SENSITIVITY == 3000

MAX_ANGLE == 120000

SMOOTHING == 1500

RETURN_STIFFNESS == 200

RETURN_DAMPING == 22

lerp(a, b, t) == a + Times(b - a, t)

clamp(value, min, max) == Min(Max(value, min), max)

\* The hook instance before its component mounts.  A pending frame callback is
\* [id, loop, lastTime, live]: its handle, the animateSpring call whose tick it is,
\* that call's lastTime, and whether the component is still mounted.  cleanupRef
\* holds the animateSpring call whose cleanup function it refers to.
VariantAbsentState ==
    [ mounted                  |-> FALSE,
      springRef                |-> createSpring([stiffness |-> RETURN_STIFFNESS,
                                                 damping |-> RETURN_DAMPING]),
      cleanupRef               |-> NULL,
      rafQueue                 |-> {},
      lastXRef                 |-> 0,
      smoothedVelocityRef      |-> 0,
      prefersReducedMotionRef  |-> FALSE,
      motionRotate             |-> NULL,
      obs                      |-> [handler |-> "none", storeWrites |-> <<>>, acts |-> 0,
                                    frames |-> 0, lateFrame |-> FALSE] ]

\* the animateSpring calls that have a frame pending, and a name for the next call
VariantLoops(v) == {cb.loop : cb \in v.rafQueue}

FreshLoop(v) ==
    CHOOSE n \in 1..(Cardinality(v.rafQueue) + 2) :
        /\ n \notin VariantLoops(v) \cup {v.cleanupRef}
        /\ \A other \in 1..(n - 1) : other \in VariantLoops(v) \cup {v.cleanupRef}

\* cleanupRef.current?.(): cancels the frame its animateSpring call has pending
VariantCleanup_noCancel(v) == v

VariantCleanup(v) ==
    IF v.cleanupRef = NULL THEN v
    ELSE [v EXCEPT !.rafQueue = {cb \in @ : cb.loop # v.cleanupRef}]

\* animateSpring(spring, updateRotation): returns the hook with the first frame
\* requested and cleanupRef naming the new call
animateSpring(v) ==
    LET loop == FreshLoop(v)
    IN  [v EXCEPT !.cleanupRef = loop,
                  !.rafQueue = @ \cup {[id |-> FreshHandle(v.rafQueue, NULL), loop |-> loop,
                                        lastTime |-> PerformanceNow, live |-> TRUE]}]

VariantStartSpringAnimation(v) == animateSpring(VariantCleanup(v))

VariantMountWith(v, matches) ==
    [VariantAbsentState EXCEPT !.mounted = TRUE,
                               !.rafQueue = v.rafQueue,
                               !.prefersReducedMotionRef = matches,
                               !.obs.handler = "mount",
                               !.obs.lateFrame = v.obs.lateFrame]

VariantHandleDragStart(v) ==
    [v EXCEPT !.lastXRef = 0, !.smoothedVelocityRef = 0,
              !.obs.handler = "start", !.obs.storeWrites = <<>>, !.obs.acts = @ + 1]

VariantHandleDragMove(v, delta) ==
    With([v EXCEPT !.obs.handler = "move", !.obs.storeWrites = <<>>,
                   !.obs.acts = @ + 1], LAMBDA seen :
        IF seen.prefersReducedMotionRef THEN seen
        ELSE
        With(delta.x - seen.lastXRef, LAMBDA instantVelocity :
        With(lerp(seen.smoothedVelocityRef, instantVelocity, SMOOTHING), LAMBDA smoothed :
        With(clamp(Times(smoothed, SENSITIVITY), -MAX_ANGLE, MAX_ANGLE),
             LAMBDA targetRotation :
            VariantStartSpringAnimation(
                [seen EXCEPT !.lastXRef = delta.x,
                             !.smoothedVelocityRef = smoothed,
                             !.springRef.targetValue = targetRotation])))))

\* measured: the bounding box of the overlay card at the drop
VariantHandleDragEnd(v, measured) ==
    With(VariantCleanup(v), LAMBDA stopped :
        [stopped EXCEPT
            !.cleanupRef = NULL,
            !.smoothedVelocityRef = 0,
            !.obs.handler = "end",
            !.obs.acts = @ + 1,
            !.obs.storeWrites =
                << [op |-> "startSettling",
                    rect |-> [top |-> measured.rect.top, left |-> measured.rect.left,
                              width |-> Quot(measured.rect.width * 100, 104),
                              height |-> Quot(measured.rect.height * 100, 104)],
                    rotation |-> v.springRef.currentValue] >>])

\* The component unmounts: the cleanup runs, the instance is gone, and the
\* callbacks the cleanup left pending remain.
VariantUnmountOf(v) ==
    [VariantAbsentState EXCEPT
        !.rafQueue = {[cb EXCEPT !.live = FALSE] : cb \in VariantCleanup(v).rafQueue},
        !.obs.handler = "unmount",
        !.obs.lateFrame = v.obs.lateFrame]

VariantRebase(v, d) ==
    [v EXCEPT !.rafQueue = {[cb EXCEPT !.lastTime = Rebase(@, d, MAX_STEP_MS)] : cb \in @}]

\* The browser runs the pending tick cb.  The frame timestamp it receives is taken
\* to be performance.now().
VariantRunFrame(v, cb) ==
    With([v EXCEPT !.rafQueue = @ \ {cb},
                   !.obs.handler = "frame", !.obs.storeWrites = <<>>,
                   !.obs.frames = IF cb.live THEN @ + 1 ELSE @], LAMBDA taken :
        IF ~cb.live THEN [taken EXCEPT !.obs.lateFrame = TRUE]
        ELSE
        With(tick(taken.springRef, Min(PerformanceNow - cb.lastTime, MAX_STEP_MS)),
             LAMBDA r :
        With([taken EXCEPT !.springRef = r.spring,
                           !.motionRotate = r.spring.currentValue], LAMBDA shown :
            IF r.stillAnimating
            THEN [shown EXCEPT !.rafQueue =
                    @ \cup {[id |-> FreshHandle(shown.rafQueue, cb.id), loop |-> cb.loop,
                             lastTime |-> PerformanceNow, live |-> TRUE]}]
            ELSE shown)))

-----------------------------------------------------------------------------
(* lib/stores/store: the drag fields of Store                              *)

Blocks == {1, 2}

\* no drop has been handled by the monitor of the pragmatic page
NoDrop == [source |-> NULL, destination |-> NULL, closestEdge |-> "null",
           capturedRect |-> NoRect, sortedBefore |-> <<>>, dataBefore |-> <<>>]

\* The store as constructed.  `obs` is not program state: it names the event
\* handled last and lists the store calls made while handling it (with the caller:
\* the page, the hook of the drag overlay, the settling overlay), and counts the
\* drags started, the events of the current drag, the end and cancel events the
\* hook handled, and the calls of endDrag.
StoreInitState ==
    [ activeBlockId         |-> NULL,
      settlingBlockId       |-> NULL,
      dropAnimationRect     |-> NoRect,
      dropAnimationRotation |-> 0,
      dropAnimationScale    |-> 10000,
      overBlockId           |-> NULL,
      dropPosition          |-> "null",
      pageId                |-> "page-1",
      blocksData            |-> [b \in Blocks |-> [order |-> b - 1, pageId |-> "page-1"]],
      dragSwingSettings     |-> DRAG_SWING_DEFAULTS,
      obs                   |-> [handler |-> "none", log |-> <<>>, drags |-> 0, acts |-> 0,
                                 ends |-> 0, endDrags |-> 0, drop |-> NoDrop] ]

\* newOrder.indexOf(id)
indexOf(array, id) ==
    IF \E i \in DOMAIN array : array[i] = id
    THEN (CHOOSE i \in DOMAIN array : array[i] = id /\ \A j \in 1..(i - 1) : array[j] # id) - 1
    ELSE -1

reorderBlocks(s, pageId, newOrder) ==
    [s EXCEPT !.blocksData =
        [b \in DOMAIN s.blocksData |->
            IF s.blocksData[b].pageId # pageId THEN @[b]
            ELSE IF indexOf(newOrder, b) = -1 THEN @[b]
            ELSE [@[b] EXCEPT !.order = indexOf(newOrder, b)]]]

setDragSwingSetting(s, key, value) == [s EXCEPT !.dragSwingSettings[key] = value]

setDropTarget(s, overBlockId, position) ==
    [s EXCEPT !.overBlockId = overBlockId, !.dropPosition = position]

clearDropTarget(s) == [s EXCEPT !.overBlockId = NULL, !.dropPosition = "null"]

startDrag(s, blockId) ==
    [s EXCEPT !.activeBlockId = blockId,
              !.dropAnimationRect = NoRect,
              !.dropAnimationRotation = 0,
              !.dropAnimationScale = 10000]

startSettling(s, rect, rotation, scale) ==
    clearDropTarget(
        [s EXCEPT !.settlingBlockId = s.activeBlockId,
                  !.dropAnimationRect = rect,
                  !.dropAnimationRotation = rotation,
                  !.dropAnimationScale = scale,
                  !.activeBlockId = NULL])

endDrag(s) ==
    [s EXCEPT !.activeBlockId = NULL,
              !.settlingBlockId = NULL,
              !.dropAnimationRect = NoRect,
              !.dropAnimationRotation = 0,
              !.dropAnimationScale = 10000,
              !.obs.endDrags = @ + 1]

\* a handler begins; a store call made by `by` is noted
Began(s, handler) == [s EXCEPT !.obs.handler = handler, !.obs.log = <<>>]

Noted(s, by, op) == [s EXCEPT !.obs.log = Append(@, [by |-> by, op |-> op])]

-----------------------------------------------------------------------------
(* components/dnd-kit/editor-page: EditorPage                              *)

\* the blocks of store.blocksData that belong to the page
pageBlocks(s) == {b \in DOMAIN s.blocksData : s.blocksData[b].pageId = s.pageId}

\* store.blocksData of the page, sorted by order
sortedIds(s) ==
    CHOOSE ids \in [1..Cardinality(pageBlocks(s)) -> pageBlocks(s)] :
        /\ \A i, j \in DOMAIN ids : i # j => ids[i] # ids[j]
        /\ \A i, j \in DOMAIN ids : i < j => s.blocksData[ids[i]].order
                                              <= s.blocksData[ids[j]].order

\* arrayMove of the sortable kit, with indexes counted from 0
arrayMove(array, from, to) ==
    LET without == [i \in 1..(Len(array) - 1) |->
                        IF i < from + 1 THEN array[i] ELSE array[i + 1]]
    IN  [i \in 1..Len(array) |->
            IF i < to + 1 THEN without[i]
            ELSE IF i = to + 1 THEN array[from + 1]
            ELSE without[i - 1]]

PageHandleDragStart(s, active) == Noted(startDrag(s, active), "page", "startDrag")

PageHandleDragOver(s, active, over) ==
    IF over = NULL \/ active = over
    THEN Noted(clearDropTarget(s), "page", "clearDropTarget")
    ELSE LET activeIndex == indexOf(sortedIds(s), active)
             overIndex   == indexOf(sortedIds(s), over)
             position    == IF activeIndex < overIndex THEN "below" ELSE "above"
         IN  Noted(setDropTarget(s, over, position), "page", "setDropTarget")

PageHandleDragEnd(s, active, over) ==
    LET moved == IF over # NULL /\ active # over
                 THEN Noted(reorderBlocks(s, s.pageId, arrayMove(sortedIds(s),
                                                indexOf(sortedIds(s), active),
                                                indexOf(sortedIds(s), over))),
                            "page", "reorderBlocks")
                 ELSE s
    IN  Noted(clearDropTarget(moved), "page", "clearDropTarget")

PageHandleDragCancel(s) ==
    Noted(endDrag(Noted(clearDropTarget(s), "page", "clearDropTarget")), "page", "endDrag")

handleSettlingComplete(s) == Noted(endDrag(s), "overlay", "endDrag")

-----------------------------------------------------------------------------
(* components/pragmatic-dnd: PragmaticDndPage and SortableCard             *)

\* array.splice(index, 1) and array.splice(index, 0, item), indexes counted from 0
removeAt(array, index) ==
    [i \in 1..(Len(array) - 1) |-> IF i < index + 1 THEN array[i] ELSE array[i + 1]]

insertAt(array, index, item) ==
    [i \in 1..(Len(array) + 1) |->
        IF i < index + 1 THEN array[i] ELSE IF i = index + 1 THEN item ELSE array[i - 1]]

finalIndex_keepsRemoved(sourceIndex, destIndex, closestEdge) ==
    IF closestEdge = "bottom" THEN destIndex + 1 ELSE destIndex

\* the index of the source in the new order: after the destination for the bottom
\* edge, one less when the removal of the source shifts the destination down
finalIndex(sourceIndex, destIndex, closestEdge) ==
    LET aimed == IF closestEdge = "bottom" THEN destIndex + 1 ELSE destIndex
    IN  IF sourceIndex < aimed THEN aimed - 1 ELSE aimed

dropCleanup_keepsTarget(s) == Noted(endDrag(s), "page", "endDrag")

\* the branches of onDrop that only clean up
dropCleanup(s) ==
    Noted(endDrag(Noted(clearDropTarget(s), "page", "clearDropTarget")), "page", "endDrag")

\* SortableCard: draggable onDragStart
CardOnDragStart(s, blockId) == Noted(startDrag(s, blockId), "card", "startDrag")

\* SortableCard: drop target onDragEnter / onDrag
CardOnDrag(s, blockId, edge) ==
    Noted(setDropTarget(s, blockId, IF edge = "top" THEN "above" ELSE "below"),
          "card", "setDropTarget")

\* monitorForElements onDrop.  destination: the blockId of location.current
\* .dropTargets[0] or NULL; capturedRect: the rectangle of the overlay card divided by
\* its scale, NoRect when no overlay card is in the document.  startSettling is
\* called with two arguments, so its scale parameter is undefined.
onDrop(s, source, destination, closestEdge, capturedRect, capturedRotation) ==
    IF destination = NULL THEN dropCleanup(s)
    ELSE IF source = destination THEN dropCleanup(s)
    ELSE
    LET sortedBlocks == sortedIds(s)
        sourceIndex  == indexOf(sortedBlocks, source)
        destIndex    == indexOf(sortedBlocks, destination)
    IN  IF sourceIndex = -1 \/ destIndex = -1 THEN dropCleanup(s)
        ELSE
        LET final   == finalIndex(sourceIndex, destIndex, closestEdge)
            moved   == IF final # sourceIndex
                       THEN Noted(reorderBlocks(s, s.pageId,
                                        insertAt(removeAt(sortedBlocks, sourceIndex),
                                                 final, source)),
                                  "page", "reorderBlocks")
                       ELSE s
            cleared == Noted(clearDropTarget(moved), "page", "clearDropTarget")
        IN  IF capturedRect # NoRect
            THEN Noted(startSettling(cleared, capturedRect, capturedRotation, NULL),
                       "page", "startSettling")
            ELSE Noted(endDrag(cleared), "page", "endDrag")

\* The monitor calls the hook's handleDragEnd after the page's handler: the store
\* calls the hook made reach the store
HookWritesTo(s, writes) ==
    IF writes = <<>> THEN s
    ELSE Noted(startSettling(s, writes[1].rect, writes[1].rotation, writes[1].scale),
               "hook", writes[1].op)

\* <DragOverlay>{activeBlock && <DragSwingOverlay/>}</DragOverlay>
RenderDragOverlay(sw, s) ==
    IF s.activeBlockId # NULL
    THEN IF sw.mounted THEN sw ELSE SwingMountWith(sw, s.dragSwingSettings)
    ELSE IF sw.mounted THEN SwingUnmountOf(sw) ELSE sw

\* {settlingBlock && <SettlingOverlay onAnimationComplete={handleSettlingComplete}/>}
\* The card of the settling block carries data-settling-target, so the overlay
\* finds its target at targetRect.
RenderSettlingOverlay(c, s, targetRect) ==
    IF s.settlingBlockId # NULL
    THEN SettleRenderWith(c, s.dropAnimationRect, s.dropAnimationRotation,
                          s.dropAnimationScale,
                          [rotationSpring |-> s.dragSwingSettings.rotationSpring,
                           scaleSpring |-> s.dragSwingSettings.scaleSpring],
                          targetRect)
    ELSE IF c.mounted THEN SettleUnmountOf(c) ELSE c

\* whether the frame that took the overlay from `before` to `after` invoked
\* onAnimationComplete
CompletionInvoked(before, after) ==
    after.obs.calls > before.obs.calls \/ (after.obs.lateCall /\ ~before.obs.lateCall)

\* One frame callback of the settling overlay, d ms after the previous frame; when
\* it invokes onAnimationComplete, the page's handleSettlingComplete runs and the
\* page renders again.
AppRunSettleFrame(c, sw, s, id, d, stalled, targetRect) ==
    With([SettleRebase(c, d) EXCEPT !.obs.stalls = IF stalled THEN @ + 1 ELSE @], LAMBDA c1 :
    With(CHOOSE x \in c1.rafQueue : x.id = id, LAMBDA cb :
    With(SettleRunFrame(c1, cb), LAMBDA c2 :
        IF CompletionInvoked(c1, c2)
        THEN With(handleSettlingComplete(Began(s, "settleFrame")), LAMBDA s1 :
                [store  |-> s1,
                 settle |-> RenderSettlingOverlay(c2, s1, targetRect),
                 swing  |-> RenderDragOverlay(sw, s1)])
        ELSE [store |-> Began(s, "settleFrame"), settle |-> c2, swing |-> sw])))

-----------------------------------------------------------------------------
(* lib/dnd/pointer-tracker: one module-level slot                          *)

\* `let lastPointerPosition = null`, with no call made yet.  `log` is not program
\* state: it lists the calls made, `before` is the slot before the last call and
\* `ret` what the last getPointerPosition returned.
TrackerInitState ==
    [ lastPointerPosition |-> NoPoint,
      log |-> << >>, before |-> NoPoint, ret |-> NoPoint ]

setPointerPosition_clearsOnNull(slot, coordinates) == coordinates

setPointerPosition(slot, coordinates) ==
    IF coordinates = NoPoint THEN slot ELSE coordinates

\* @dnd-kit/utilities: the client coordinates of the first touch of a touch event,
\* those of a mouse or pointer event, and null for any other event
getEventCoordinates(event) ==
    IF event.type = "touch"
        THEN IF Len(event.touches) > 0 THEN event.touches[1] ELSE NoPoint
    ELSE IF event.type = "pointer" THEN [x |-> event.clientX, y |-> event.clientY]
    ELSE NoPoint

getPointerPosition(slot) == slot

clearPointerPosition(slot) == NoPoint

-----------------------------------------------------------------------------
(* lib/dnd/tracked-sensors: TrackedPointerSensor                           *)
(* The handlers work on w = [sensor |-> the instance, tracker |-> the       *)
(* pointer tracker module].                                                *)

NoEvent == [type |-> "none"]

\* @dnd-kit/core: defaultCoordinates
defaultCoordinates == [x |-> 0, y |-> 0]

\* @dnd-kit/utilities: subtract(a, b)
subtract(a, b) == [x |-> a.x - b.x, y |-> a.y - b.y]

\* options.activationConstraint is undefined
NoConstraint == [none |-> TRUE]

\* No sensor instance exists.  `instance`, `delivered` and `obs` are not program state:
\* `instance` counts the instances constructed so far, `delivered` lists the
\* callbacks the instances delivered to the drag library, each with its instance and
\* with the tracker slot a handler would read at that moment; `obs` names the
\* listener that ran last, its event, whether the sensor was activated when it began,
\* whether it called preventDefault on the event, and how long the tracker's call log
\* was when it began.
SensorAbsentState ==
    [ attached            |-> FALSE,
      keydownAttached     |-> FALSE,
      activated           |-> FALSE,
      activationConstraint |-> NoConstraint,
      bypass              |-> FALSE,
      instance            |-> 0,
      initialCoordinates  |-> NoPoint,
      event               |-> NoEvent,
      timeoutId           |-> NULL,
      timerPending        |-> FALSE,
      delivered           |-> << >>,
      obs                 |-> [handler |-> "none", event |-> NoEvent,
                               activatedBefore |-> FALSE, prevented |-> FALSE,
                               logAt |-> 0, events |-> 0] ]

\* a call of the tracker made by the sensor, noted in the tracker's log
TrackerCall(tr, op, arg, slot) ==
    [tr EXCEPT !.lastPointerPosition = slot,
               !.log = Append(@, [op |-> op, arg |-> arg]),
               !.before = tr.lastPointerPosition]

\* the sensor invokes a callback of its props
Deliver(w, name) ==
    [w EXCEPT !.sensor.delivered =
                Append(@, [name |-> name, of |-> w.sensor.instance,
                           slot |-> getPointerPosition(w.tracker.lastPointerPosition)])]

\* the distance is compared in hundredths of a pixel
hasExceededDistance(delta, measurement) ==
    LET dx == Abs(delta.x) \div 100
        dy == Abs(delta.y) \div 100
    IN  IF "value" \in DOMAIN measurement
            THEN dx * dx + dy * dy > (measurement.value \div 100) * (measurement.value \div 100)
        ELSE IF "x" \in DOMAIN measurement /\ "y" \in DOMAIN measurement
            THEN dx > measurement.x \div 100 /\ dy > measurement.y \div 100
        ELSE IF "x" \in DOMAIN measurement THEN dx > measurement.x \div 100
        ELSE IF "y" \in DOMAIN measurement THEN dy > measurement.y \div 100
        ELSE FALSE

\* detach(): the keydown listener on the document is removed 50 ms later
detach(w) ==
    [w EXCEPT !.sensor.attached = FALSE,
              !.sensor.timeoutId = NULL,
              !.sensor.timerPending = IF w.sensor.timeoutId # NULL THEN FALSE ELSE @]

handlePending(w) == Deliver(w, "onPending")

handleStart(w) ==
    IF w.sensor.initialCoordinates # NoPoint
    THEN Deliver([w EXCEPT
                    !.sensor.activated = TRUE,
                    !.tracker = TrackerCall(@, "setPointerPosition",
                                    getEventCoordinates(w.sensor.event),
                                    setPointerPosition(@.lastPointerPosition,
                                                       getEventCoordinates(w.sensor.event)))],
                 "onStart")
    ELSE w

handleCancel(w) ==
    LET detached == detach(w)
        aborted  == IF ~detached.sensor.activated THEN Deliver(detached, "onAbort")
                    ELSE detached
        cleared  == [aborted EXCEPT
                        !.tracker = TrackerCall(@, "clearPointerPosition", NoPoint,
                                        clearPointerPosition(@.lastPointerPosition))]
    IN  Deliver(cleared, "onCancel")

handleEnd_deliversFirst(w) ==
    LET detached == detach(w)
        aborted  == IF ~detached.sensor.activated THEN Deliver(detached, "onAbort")
                    ELSE detached
        ended    == Deliver(aborted, "onEnd")
    IN  [ended EXCEPT
            !.tracker = TrackerCall(@, "clearPointerPosition", NoPoint,
                            clearPointerPosition(@.lastPointerPosition))]

handleEnd(w) ==
    LET detached == detach(w)
        aborted  == IF ~detached.sensor.activated THEN Deliver(detached, "onAbort")
                    ELSE detached
        cleared  == [aborted EXCEPT
                        !.tracker = TrackerCall(@, "clearPointerPosition", NoPoint,
                                        clearPointerPosition(@.lastPointerPosition))]
    IN  Deliver(cleared, "onEnd")

handleMove_ignoresPending(w0, event) ==
    IF w0.sensor.initialCoordinates = NoPoint THEN w0
    ELSE
    LET coordinates == getEventCoordinates(event)
        w == [w0 EXCEPT
                !.tracker = TrackerCall(@, "setPointerPosition", coordinates,
                                setPointerPosition(@.lastPointerPosition, coordinates))]
    IN  Deliver([w EXCEPT !.sensor.obs.prevented = event.cancelable], "onMove")

handleMove(w0, event) ==
    IF w0.sensor.initialCoordinates = NoPoint THEN w0
    ELSE
    LET coordinates == getEventCoordinates(event)
        w == [w0 EXCEPT
                !.tracker = TrackerCall(@, "setPointerPosition", coordinates,
                                setPointerPosition(@.lastPointerPosition, coordinates))]
        resolvedCoordinates == IF coordinates # NoPoint THEN coordinates
                               ELSE defaultCoordinates
        delta == subtract(w.sensor.initialCoordinates, resolvedCoordinates)
        activationConstraint == w.sensor.activationConstraint
    IN  IF ~w.sensor.activated /\ activationConstraint # NoConstraint
        THEN IF "distance" \in DOMAIN activationConstraint
                /\ "tolerance" \in DOMAIN activationConstraint
                /\ hasExceededDistance(delta, activationConstraint.tolerance)
             THEN handleCancel(w)
             ELSE IF "distance" \in DOMAIN activationConstraint
                /\ hasExceededDistance(delta, activationConstraint.distance)
             THEN handleStart(w)
             ELSE IF "delay" \in DOMAIN activationConstraint
                /\ hasExceededDistance(delta, activationConstraint.tolerance)
             THEN handleCancel(w)
             ELSE handlePending(w)
        ELSE Deliver([w EXCEPT !.sensor.obs.prevented = event.cancelable], "onMove")

handleKeydown(w, code) == IF code = "Escape" THEN handleCancel(w) ELSE w

\* new TrackedPointerSensor(props, events): the constructor, which ends with attach()
TrackedPointerSensor(w, event, options) ==
    LET made == [w EXCEPT !.sensor =
                    [SensorAbsentState EXCEPT
                        !.attached = TRUE, !.keydownAttached = TRUE,
                        !.activationConstraint = options.activationConstraint,
                        !.bypass = options.bypass,
                        !.event = event,
                        !.initialCoordinates =
                            IF getEventCoordinates(event) # NoPoint
                            THEN getEventCoordinates(event) ELSE defaultCoordinates,
                        !.instance = w.sensor.instance + 1,
                        !.delivered = w.sensor.delivered,
                        !.obs = w.sensor.obs]]
        activationConstraint == options.activationConstraint
    IN  IF activationConstraint # NoConstraint /\ options.bypass THEN handleStart(made)
        ELSE IF "delay" \in DOMAIN activationConstraint
             THEN handlePending([made EXCEPT !.sensor.timeoutId = 1,
                                             !.sensor.timerPending = TRUE])
        ELSE IF "distance" \in DOMAIN activationConstraint THEN handlePending(made)
        ELSE handleStart(made)

\* a listener of the sensor begins to run on event
Listening(w, handler, event) ==
    [w EXCEPT !.sensor.obs =
                [handler |-> handler, event |-> event,
                 activatedBefore |-> w.sensor.activated, prevented |-> FALSE,
                 logAt |-> Len(w.tracker.log), events |-> w.sensor.obs.events + 1]]

-----------------------------------------------------------------------------
(* Components that a specification does not exercise stay as constructed   *)

SettleAbsent == settle = SettleAbsentState

SwingAbsent == swing = SwingAbsentState

VariantAbsent == variant = VariantAbsentState

StoreParked == store = StoreInitState

TrackerParked == tracker = TrackerInitState

SensorParked == sensor = SensorAbsentState

SpringParked ==
    /\ spring = createLiveSpring(SPRING_DEFAULTS)
    /\ call = [op |-> "create", arg |-> NULL, before |-> spring, ret |-> NULL, steps |-> 0]

-----------------------------------------------------------------------------
(* SpecSpring: one spring driven by arbitrary calls                        *)

MaxSpringSteps == 3

\* how far behind the previous step a timestamp may lie (a caller error; kept small
\* so that the products of the integration stay within 32 bits)
MaxBackwardMs == 64

SpringConfigs == {RotationSpringDefault, ScaleSpringDefault}

\* rest, the drag scale, a tilt, and a value within the scale spring's rest distance
\* of rest
SpringValues == {0, 10400, -31250, 9}

StepTimes == {0, 16, 80, 10016}

ConfigChanges == {[stiffness |-> 550, restDistance |-> 10], NeverRestConfig}

SpringInit ==
    /\ \E config \in SpringConfigs : spring = createLiveSpring(config)
    /\ call = [op |-> "create", arg |-> NULL, before |-> spring, ret |-> NULL, steps |-> 0]
    /\ SettleAbsent /\ SwingAbsent /\ VariantAbsent /\ StoreParked /\ TrackerParked /\ SensorParked

SpSetTarget ==
    /\ \E target \in SpringValues :
            /\ spring' = setTarget(spring, target)
            /\ call' = [call EXCEPT !.op = "setTarget", !.arg = target, !.before = spring,
                                    !.ret = NULL]
    /\ UNCHANGED besidesSpring

SpSetCurrent ==
    /\ \E value \in SpringValues :
            /\ spring' = setCurrent(spring, value)
            /\ call' = [call EXCEPT !.op = "setCurrent", !.arg = value, !.before = spring,
                                    !.ret = NULL]
    /\ UNCHANGED besidesSpring

SpStep ==
    /\ \E now \in StepTimes :
            /\ call.steps < MaxSpringSteps
            /\ spring.lastTime # NULL => now - spring.lastTime >= -MaxBackwardMs
            /\ LET r == step(spring, now)
               IN  /\ spring' = r.spring
                   /\ call' = [op |-> "step", arg |-> now, before |-> spring,
                               ret |-> [value |-> r.value, velocity |-> r.velocity,
                                        done |-> r.done],
                               steps |-> call.steps + 1]
    /\ UNCHANGED besidesSpring

SpSetConfig ==
    /\ \E nextConfig \in ConfigChanges :
            /\ spring' = setConfig(spring, nextConfig)
            /\ call' = [call EXCEPT !.op = "setConfig", !.arg = nextConfig, !.before = spring,
                                    !.ret = NULL]
    /\ UNCHANGED besidesSpring

SpReset ==
    /\ spring' = reset(spring)
    /\ call' = [call EXCEPT !.op = "reset", !.arg = NULL, !.before = spring, !.ret = NULL]
    /\ UNCHANGED besidesSpring

SpringNext == SpSetTarget \/ SpSetCurrent \/ SpStep \/ SpSetConfig \/ SpReset

SpecSpring == SpringInit /\ [][SpringNext]_vars

-----------------------------------------------------------------------------
(* SpecConverge: one spring with a fixed target, stepped at a steady frame *)
(* interval for as long as the caller likes                                *)

\* Values above 100 units are not followed: a spring whose value got there from a
\* start within 4 units of its target is running away, its value grows from step to
\* step until the doubles overflow to Infinity and the next force is
\* Infinity - Infinity
Runaway == 1000000

\* NaN in a slot that holds a number
NaN == -999999999

\* step as the caller sees it once the numbers have overflowed: every comparison
\* with NaN is false, so the rest test fails and NaN is returned again
stepOverflowing(s, now) ==
    With(IF s.currentValue = NaN THEN [spring |-> [s EXCEPT !.lastTime = now]]
         ELSE step(s, now), LAMBDA r :
        IF s.currentValue = NaN \/ Abs(r.value) > Runaway
        THEN [spring |-> [r.spring EXCEPT !.currentValue = NaN, !.currentVelocity = NaN],
              value |-> NaN, velocity |-> NaN, done |-> FALSE]
        ELSE r)

\* the frame intervals: 60, 30, 15 and 10 frames per second
ConvergeIntervals == {16, 33, 64, 100}

ConvergeStarts == {10400, -31250, 40000}

\* setCurrent(start), setTarget(0), and the cold first step; the interval between
\* the steps is noted in call.arg, and call.steps counts the steps modulo 2
ConvergeInit ==
    /\ \E config \in SpringConfigs, start \in ConvergeStarts, interval \in ConvergeIntervals :
            /\ spring = step(setTarget(setCurrent(createLiveSpring(config), start), 0),
                             PerformanceNow).spring
            /\ call = [op |-> "create", arg |-> interval, before |-> spring, ret |-> NULL,
                       steps |-> 0]
    /\ SettleAbsent /\ SwingAbsent /\ VariantAbsent /\ StoreParked /\ TrackerParked /\ SensorParked

\* step(now) with now one interval after the previous step
ConvergeStep ==
    /\ \E r \in {stepOverflowing(RebaseSpring(spring, call.arg), PerformanceNow)} :
            /\ spring' = r.spring
            /\ call' = [call EXCEPT !.op = "step", !.before = spring,
                                    !.ret = [value |-> r.value, velocity |-> r.velocity,
                                             done |-> r.done],
                                    !.steps = 1 - @]
    /\ UNCHANGED besidesSpring

SpecConverge == ConvergeInit /\ [][ConvergeStep]_vars

\* the caller keeps stepping
SpecConvergeFair == SpecConverge /\ WF_vars(ConvergeStep)

-----------------------------------------------------------------------------
(* SpecVelocity: the velocity estimate and the rotation mapping, called    *)
(* once on an input                                                        *)

\* the longest position history
MaxHistory == 4

\* pointer samples: x at 0, 5, 12 and 20 px, y running the other way, at 0, 40, 90
\* and 150 ms
Samples ==
    {[x |-> x, y |-> 300000 - x, timestamp |-> ts] :
        x \in {0, 50000, 120000, 200000}, ts \in {0, 40, 90, 150}}

\* histories in the order the samples were taken
Histories ==
    UNION {{h \in [1..n -> Samples] :
                \A i \in 1..(n - 1) : h[i].timestamp <= h[i + 1].timestamp} :
           n \in 0..MaxHistory}

VelocityWindows == {VELOCITY_WINDOW_MS, 50}

\* velocities of 0, 1000, -1000, 9000, 20000 and -20000 px/s; scales of 0.005 and
\* 0.02 deg per px/s; limits of 45 and 10 deg
VelocityInputs ==
    {[velocityX |-> vx, velocityScale |-> scale, maxRotation |-> max] :
        vx \in {0, 10000000, -10000000, 90000000, 200000000, -200000000},
        scale \in {VELOCITY_SCALE, 200}, max \in {MAX_ROTATION, 100000}}

VelocityInit ==
    /\ spring = createLiveSpring(SPRING_DEFAULTS)
    /\ \E arg \in {[history |-> h, windowMs |-> w] : h \in Histories, w \in VelocityWindows}
                    \cup VelocityInputs :
            call = [op |-> "create", arg |-> arg, before |-> spring, ret |-> NULL,
                    steps |-> 0]
    /\ SettleAbsent /\ SwingAbsent /\ VariantAbsent /\ StoreParked /\ TrackerParked /\ SensorParked

VelCalculate ==
    /\ call.op = "create" /\ "history" \in DOMAIN call.arg
    /\ call' = [call EXCEPT
                    !.op = "calculateVelocityFromHistory",
                    !.ret = calculateVelocityFromHistory(call.arg.history, call.arg.windowMs)]
    /\ UNCHANGED spring
    /\ UNCHANGED besidesSpring

VelToRotation ==
    /\ call.op = "create" /\ "velocityX" \in DOMAIN call.arg
    /\ call' = [call EXCEPT
                    !.op = "velocityToRotation",
                    !.ret = velocityToRotation(call.arg.velocityX, call.arg.velocityScale,
                                               call.arg.maxRotation)]
    /\ UNCHANGED spring
    /\ UNCHANGED besidesSpring

VelocityNext == VelCalculate \/ VelToRotation

SpecVelocity == VelocityInit /\ [][VelocityNext]_vars

-----------------------------------------------------------------------------
(* SpecPointer: the sensors and the hook calling the pointer tracker       *)

\* the calls made on the tracker
MaxPointerOps == 4

PointerCoords == {[x |-> 1000000, y |-> 500000], [x |-> 0, y |-> 0]}

PointerEvents ==
    { [type |-> "pointer", clientX |-> 2500000, clientY |-> 40000],
      [type |-> "touch", touches |-> << [x |-> 300000, y |-> 7000000] >>],
      [type |-> "keyboard"] }

PointerInit ==
    /\ tracker = TrackerInitState
    /\ SpringParked /\ SettleAbsent /\ SwingAbsent /\ VariantAbsent /\ StoreParked
    /\ SensorParked

TrackerCalled(op, arg, slot, ret) ==
    [ lastPointerPosition |-> slot,
      log |-> Append(tracker.log, [op |-> op, arg |-> arg]),
      before |-> tracker.lastPointerPosition, ret |-> ret ]

PtrSet ==
    /\ Len(tracker.log) < MaxPointerOps
    /\ \E coordinates \in PointerCoords \cup {NoPoint} :
            tracker' = TrackerCalled("setPointerPosition", coordinates,
                            setPointerPosition(tracker.lastPointerPosition, coordinates),
                            tracker.ret)
    /\ UNCHANGED besidesTracker

\* setPointerPositionFromEvent: the call it forwards to setPointerPosition is logged
PtrSetFromEvent ==
    /\ Len(tracker.log) < MaxPointerOps
    /\ \E event \in PointerEvents :
            tracker' = TrackerCalled("setPointerPosition", getEventCoordinates(event),
                            setPointerPosition(tracker.lastPointerPosition,
                                               getEventCoordinates(event)),
                            tracker.ret)
    /\ UNCHANGED besidesTracker

PtrGet ==
    /\ Len(tracker.log) < MaxPointerOps
    /\ tracker' = TrackerCalled("getPointerPosition", NoPoint, tracker.lastPointerPosition,
                        getPointerPosition(tracker.lastPointerPosition))
    /\ UNCHANGED besidesTracker

PtrClear ==
    /\ Len(tracker.log) < MaxPointerOps
    /\ tracker' = TrackerCalled("clearPointerPosition", NoPoint,
                        clearPointerPosition(tracker.lastPointerPosition), tracker.ret)
    /\ UNCHANGED besidesTracker

PointerNext == PtrSet \/ PtrSetFromEvent \/ PtrGet \/ PtrClear

SpecPointer == PointerInit /\ [][PointerNext]_vars

-----------------------------------------------------------------------------
(* SpecSensor: gestures handled by one tracked sensor at a time            *)

\* the events the sensor's listeners receive, over all gestures
MaxSensorEvents == 4

\* a press at (100, 50) by mouse or by touch
ActivatorEvents ==
    { [type |-> "pointer", clientX |-> 1000000, clientY |-> 500000, cancelable |-> TRUE],
      [type |-> "touch", touches |-> << [x |-> 1000000, y |-> 500000] >>,
       cancelable |-> TRUE] }

\* moves to 2, 8 and 20 px right of the press, cancelable or not, and a touch move
\* that carries no touch
MoveEvents ==
    { [type |-> "pointer", clientX |-> 1000000 + dx, clientY |-> 500000,
       cancelable |-> c] : dx \in {20000, 80000, 200000}, c \in BOOLEAN }
    \cup { [type |-> "touch", touches |-> << >>, cancelable |-> TRUE] }

\* the activation constraints: 5 px of distance (with and without a tolerance of
\* 15 px), a delay with a tolerance of 5 px, and a delay together with a distance
ActivationConstraints ==
    { [distance |-> [value |-> 50000]],
      [distance |-> [value |-> 50000], tolerance |-> [value |-> 150000]],
      [delay |-> 250, tolerance |-> [value |-> 50000]],
      [delay |-> 250, tolerance |-> [value |-> 150000], distance |-> [value |-> 50000]] }

\* no constraint, each constraint, and the plain delay bypassed
SensorOptions ==
    { [activationConstraint |-> NoConstraint, bypass |-> FALSE] }
    \cup { [activationConstraint |-> c, bypass |-> FALSE] : c \in ActivationConstraints }
    \cup { [activationConstraint |-> c, bypass |-> TRUE] :
                c \in {c \in ActivationConstraints : DOMAIN c = {"delay", "tolerance"}} }

SensorInit ==
    /\ sensor = SensorAbsentState
    /\ tracker = TrackerInitState
    /\ SpringParked /\ SettleAbsent /\ SwingAbsent /\ VariantAbsent /\ StoreParked

SensorActsNow == sensor.obs.events < MaxSensorEvents

SensorBecomes(w) == sensor' = w.sensor /\ tracker' = w.tracker

SensorNow == [sensor |-> sensor, tracker |-> tracker]

\* an activator event starts a gesture; the drag library holds one sensor at a time,
\* and the listeners of the previous one are gone
SensorActivate ==
    /\ ~sensor.attached /\ ~sensor.keydownAttached
    /\ SensorActsNow
    /\ \E event \in ActivatorEvents, options \in SensorOptions :
            SensorBecomes(TrackedPointerSensor(Listening(SensorNow, "activate", event),
                                               event, options))
    /\ UNCHANGED besidesSensor

\* mousemove / touchmove
SensorMove ==
    /\ sensor.attached /\ SensorActsNow
    /\ \E event \in MoveEvents :
            SensorBecomes(handleMove(Listening(SensorNow, "move", event), event))
    /\ UNCHANGED besidesSensor

\* mouseup / touchend
SensorEnd ==
    /\ sensor.attached /\ SensorActsNow
    /\ SensorBecomes(handleEnd(Listening(SensorNow, "end", NoEvent)))
    /\ UNCHANGED besidesSensor

\* touchcancel, or resize / visibilitychange on the window
SensorCancel ==
    /\ sensor.attached /\ SensorActsNow
    /\ SensorBecomes(handleCancel(Listening(SensorNow, "cancel", NoEvent)))
    /\ UNCHANGED besidesSensor

\* keydown on the document, whose listener outlives detach() by 50 ms
SensorKeydown ==
    /\ sensor.keydownAttached /\ SensorActsNow
    /\ \E code \in {"Escape", "Space"} :
            SensorBecomes(handleKeydown(Listening(SensorNow, "keydown", NoEvent), code))
    /\ UNCHANGED besidesSensor

\* the delay of the activation constraint elapses
SensorTimeout ==
    /\ sensor.timerPending
    /\ SensorBecomes(handleStart([Listening(SensorNow, "timeout", NoEvent)
                                    EXCEPT !.sensor.timerPending = FALSE]))
    /\ UNCHANGED besidesSensor

\* setTimeout(this.documentListeners.removeAll, 50) fires
SensorListenersRemoved ==
    /\ ~sensor.attached /\ sensor.keydownAttached
    /\ sensor' = [sensor EXCEPT !.keydownAttached = FALSE]
    /\ UNCHANGED tracker
    /\ UNCHANGED besidesSensor

SensorNext ==
    \/ SensorActivate \/ SensorMove \/ SensorEnd \/ SensorCancel \/ SensorKeydown
    \/ SensorTimeout \/ SensorListenersRemoved

SpecSensor == SensorInit /\ [][SensorNext]_vars

-----------------------------------------------------------------------------
(* SpecPragmatic: drags and drops on the pragmatic page                    *)

\* the drags followed
MaxPragDrags == 2

\* three blocks of the page in any order and a block of another page, as a store
\* hydrated from storage can hold them
PragBlocksData ==
    { [b \in 1..4 |-> IF b = 4 THEN [order |-> 0, pageId |-> "page-2"]
                      ELSE [order |-> perm[b], pageId |-> "page-1"]] :
        perm \in {f \in [1..3 -> 0..2] : \A i, j \in 1..3 : i # j => f[i] # f[j]} }

CapturedRects == {NoRect, [left |-> 460000, top |-> 984000, width |-> 2000000, height |-> 800000]}

PragInit ==
    /\ \E data \in PragBlocksData : store = [StoreInitState EXCEPT !.blocksData = data]
    /\ SwingAbsent /\ SettleAbsent /\ VariantAbsent /\ SpringParked /\ TrackerParked
    /\ SensorParked

\* the block being dragged, whatever the store says
PragDragging == store.obs.handler \in {"start", "over"}

\* a card of the page is picked up
PragDragStart ==
    /\ ~PragDragging
    /\ store.obs.drags < MaxPragDrags
    /\ \E blockId \in pageBlocks(store) :
            store' = [CardOnDragStart(Began(store, "start"), blockId) EXCEPT
                        !.obs.drags = @ + 1,
                        !.obs.drop = [NoDrop EXCEPT !.source = blockId]]
    /\ UNCHANGED besidesStore

\* the pointer enters or moves over another card (canDrop refuses the source)
PragDragOver ==
    /\ PragDragging
    /\ \E blockId \in pageBlocks(store) \ {store.obs.drop.source}, edge \in {"top", "bottom"} :
            store' = CardOnDrag(Began(store, "over"), blockId, edge)
    /\ UNCHANGED besidesStore

\* the card is released: over nothing, over a card (the monitor takes what the drop
\* target's data names, be it the source or a block that is not on the page), with
\* the overlay card in the document or not
PragDrop ==
    /\ PragDragging
    /\ \E destination \in DOMAIN store.blocksData \cup {NULL}, closestEdge \in {"top", "bottom"},
          capturedRect \in CapturedRects :
            store' = [onDrop(Began(store, "drop"), store.obs.drop.source, destination,
                             closestEdge, capturedRect, 0) EXCEPT
                        !.obs.drop = [source |-> store.obs.drop.source,
                                      destination |-> destination,
                                      closestEdge |-> closestEdge,
                                      capturedRect |-> capturedRect,
                                      sortedBefore |-> sortedIds(store),
                                      dataBefore |-> store.blocksData]]
    /\ UNCHANGED besidesStore

\* the settling overlay reports completion, possibly after the next drag has
\* started: handleSettlingComplete
PragSettlingComplete ==
    /\ store.settlingBlockId # NULL
    /\ store' = handleSettlingComplete(store)
    /\ UNCHANGED besidesStore

PragNext == PragDragStart \/ PragDragOver \/ PragDrop \/ PragSettlingComplete

SpecPragmatic == PragInit /\ [][PragNext]_vars

-----------------------------------------------------------------------------
(* SpecSettle: one SettlingOverlay rendered, re-rendered and removed by    *)
(* its parent, its frames delivered by the browser                         *)

\* how many frames of one effect run may arrive late (after more than a display frame)
MaxStalls == 1

\* the time between two frame callbacks: a display frame, a late frame (longer than
\* the 64 ms step cap), a stalled tab (longer than the settle watchdog)
FrameDeltas == {16, 100, 2100}

DropRects == {[left |-> 500000, top |-> 1000000, width |-> 2000000, height |-> 800000]}

\* the slot as large as the overlay card, and a larger one
TargetRects ==
    {[left |-> 510000, top |-> 1000000, width |-> 2080000, height |-> 832000],
     [left |-> 200000, top |-> 1900000, width |-> 2000000, height |-> 800000]}

DropRotations == {0, -31250}

DropScales == {10400}

SettingsChoices ==
    {[rotationSpring |-> RotationSpringDefault, scaleSpring |-> ScaleSpringDefault],
     [rotationSpring |-> NeverRestConfig, scaleSpring |-> ScaleSpringDefault]}

SettleInit == SettleAbsent /\ SpringParked /\ SwingAbsent /\ VariantAbsent /\ StoreParked /\ TrackerParked /\ SensorParked

\* the parent renders the overlay (first render or any later one)
SettleRender ==
    /\ \E rect \in DropRects \cup {NoRect}, rotation \in DropRotations, scale \in DropScales,
           settings \in SettingsChoices, targetRect \in TargetRects \cup {NoRect} :
            settle' = SettleRenderWith(settle, rect, rotation, scale, settings, targetRect)
    /\ UNCHANGED besidesSettle

\* the browser delivers one pending frame callback, d ms after the previous one
SettleFrame ==
    /\ \E cb \in settle.rafQueue, d \in FrameDeltas :
            /\ d > 16 => settle.obs.stalls < MaxStalls
            /\ LET c1  == SettleRebase(settle, d)
                   cb1 == CHOOSE x \in c1.rafQueue : x.id = cb.id
                   c2  == [c1 EXCEPT !.obs.stalls = IF d > 16 THEN @ + 1 ELSE @]
               IN  settle' = SettleRunFrame(c2, cb1)
    /\ UNCHANGED besidesSettle

SettleUnmount ==
    /\ settle.mounted
    /\ settle' = SettleUnmountOf(settle)
    /\ UNCHANGED besidesSettle

SettleNext == SettleRender \/ SettleFrame \/ SettleUnmount

SpecSettle == SettleInit /\ [][SettleNext]_vars

-----------------------------------------------------------------------------
(* SpecSwing: one drag overlay with useDragSwing (either implementation),  *)
(* mounted and removed by its parent, driven by the drag monitor, the      *)
(* settings store and the browser's frames                                 *)

\* how many events (drag start, move, end or cancel, settings change) one mounted
\* overlay is followed through
MaxActs == 4

\* The user and the settings panel act within this many frames of a phase (the
\* drag, or the settling after it), and a drag lasts at most this many frames
MaxPhaseFrames == 2

\* the defaults, a rotation spring that never rests, and a drag scale of 1 (the
\* lowest the settings panel offers)
SwingSettings ==
    {DRAG_SWING_DEFAULTS, [DRAG_SWING_DEFAULTS EXCEPT !.rotationSpring = NeverRestThresholds],
     [DRAG_SWING_DEFAULTS EXCEPT !.dragScale = REST_SCALE]}

\* pointers at 100px and 120px across, 50px down, and drags of 0 and 10px
Pointers == {[x |-> 1000000, y |-> 500000], [x |-> 1200000, y |-> 500000]}

Deltas == {[x |-> 0, y |-> 0], [x |-> 100000, y |-> 0]}

\* the overlay card as measured at the drop: its bounding box (scaled and rotated)
\* and its layout size
Measurements ==
    {[rect |-> [left |-> 460000, top |-> 984000, width |-> 2080000, height |-> 832000],
      offsetWidth |-> 2000000, offsetHeight |-> 800000],
     [rect |-> [left |-> 460000, top |-> 984000, width |-> 2080000, height |-> 832000],
      offsetWidth |-> 0, offsetHeight |-> 0]}

\* the time between two frame callbacks of the overlay: a display frame or a stalled tab
SwingFrameDeltas == {16, 2100}

SwingInit == SwingAbsent /\ VariantAbsent /\ SettleAbsent /\ SpringParked /\ StoreParked /\ TrackerParked /\ SensorParked

SwingActsNow ==
    /\ swing.obs.acts < MaxActs
    /\ swing.obs.frames <= MaxPhaseFrames \/ swing.rafQueue = {}

\* the page is built with one of the two implementations
SwingMount ==
    /\ ~swing.mounted /\ VariantAbsent
    /\ \E settings \in SwingSettings : swing' = SwingMountWith(swing, settings)
    /\ UNCHANGED besidesSwing

\* the drag monitor reports a drag start; none is reported while a drag is active
SwingDragStart ==
    /\ swing.mounted /\ ~swing.isDraggingRef
    /\ SwingActsNow
    /\ \E trackedPointer \in Pointers \cup {NoPoint},
          activatorPoint \in Pointers \cup {NoPoint} :
            swing' = handleDragStart(swing, trackedPointer, activatorPoint)
    /\ UNCHANGED besidesSwing

SwingDragMove ==
    /\ swing.mounted /\ swing.isDraggingRef
    /\ SwingActsNow
    /\ \E trackedPointer \in Pointers \cup {NoPoint}, delta \in Deltas,
          activatorPoint \in Pointers \cup {NoPoint} :
            swing' = handleDragMove(swing, trackedPointer, delta, activatorPoint)
    /\ UNCHANGED besidesSwing

\* onDragEnd and onDragCancel are the same handler
SwingDragEnd ==
    /\ swing.mounted /\ swing.isDraggingRef
    /\ swing.obs.acts < MaxActs
    /\ \E measured \in Measurements : swing' = handleDragEnd(swing, measured)
    /\ UNCHANGED besidesSwing

\* store.dragSwingSettings changes and the autorun re-runs
SwingSettingsChange ==
    /\ swing.mounted /\ SwingActsNow
    /\ \E settings \in SwingSettings \ {swing.settingsRef} :
            swing' = [SwingSettingsAutorun(swing, settings) EXCEPT
                        !.obs.handler = "settings", !.obs.storeWrites = <<>>,
                        !.obs.acts = @ + 1]
    /\ UNCHANGED besidesSwing

\* the browser delivers one pending frame callback, d ms after the previous one
SwingFrame ==
    /\ \E cb \in swing.rafQueue, d \in SwingFrameDeltas :
            /\ d > 16 => swing.obs.stalls < MaxStalls
            /\ (cb.live /\ swing.isDraggingRef) => swing.obs.frames < MaxPhaseFrames
            /\ swing' = SwingRunFrame(
                            [SwingRebase(swing, d) EXCEPT
                                !.obs.stalls = IF d > 16 THEN @ + 1 ELSE @], cb)
    /\ UNCHANGED besidesSwing

SwingUnmount ==
    /\ swing.mounted
    /\ swing' = SwingUnmountOf(swing)
    /\ UNCHANGED besidesSwing

VariantActsNow ==
    /\ variant.obs.acts < MaxActs
    /\ variant.obs.frames <= MaxPhaseFrames \/ variant.rafQueue = {}

VariantMount ==
    /\ ~variant.mounted /\ SwingAbsent
    /\ \E matches \in BOOLEAN : variant' = VariantMountWith(variant, matches)
    /\ UNCHANGED besidesVariant

VariantDragStart ==
    /\ variant.mounted /\ VariantActsNow
    /\ variant.obs.handler \in {"end", "frame"}
    /\ variant' = VariantHandleDragStart(variant)
    /\ UNCHANGED besidesVariant

VariantDragMove ==
    /\ variant.mounted /\ VariantActsNow
    /\ \E delta \in Deltas : variant' = VariantHandleDragMove(variant, delta)
    /\ UNCHANGED besidesVariant

VariantDragEnd ==
    /\ variant.mounted /\ variant.obs.acts < MaxActs
    /\ \E measured \in Measurements : variant' = VariantHandleDragEnd(variant, measured)
    /\ UNCHANGED besidesVariant

VariantFrame ==
    /\ \E cb \in variant.rafQueue, d \in SwingFrameDeltas :
            /\ d > 16 => variant.obs.frames = 0
            /\ \E cb1 \in {x \in VariantRebase(variant, d).rafQueue : x.id = cb.id} :
                    variant' = [VariantRunFrame(VariantRebase(variant, d), cb1) EXCEPT
                                    !.obs.frames = Min(@, MaxPhaseFrames + 1)]
    /\ UNCHANGED besidesVariant

VariantUnmount ==
    /\ variant.mounted
    /\ variant' = VariantUnmountOf(variant)
    /\ UNCHANGED besidesVariant

SwingNext ==
    \/ SwingMount \/ SwingDragStart \/ SwingDragMove \/ SwingDragEnd
    \/ SwingSettingsChange \/ SwingFrame \/ SwingUnmount
    \/ VariantMount \/ VariantDragStart \/ VariantDragMove \/ VariantDragEnd
    \/ VariantFrame \/ VariantUnmount

SpecSwing == SwingInit /\ [][SwingNext]_vars

\* The browser keeps delivering frames: a requested callback is eventually run
SpecSwingFair == SpecSwing /\ WF_vars(SwingFrame)

-----------------------------------------------------------------------------
(* SpecApp: the editor page.  The drag kit reports each event to the page  *)
(* first and to the hook of the drag overlay next; the page then renders   *)
(* the overlays from the store.                                            *)

\* how many drags the page is followed through
MaxDrags == 2

\* how many events besides its start and its end (moves, drop-target changes,
\* settings changes, renders) one drag and its settling are followed through
MaxPageActs == 2

AppTargetRect == CHOOSE r \in TargetRects : r.width = 2080000

AppInit ==
    /\ store = StoreInitState
    /\ SwingAbsent /\ SettleAbsent /\ VariantAbsent /\ SpringParked /\ TrackerParked /\ SensorParked

\* the user and the settings panel act early in a drag and early in a settling
AppActsNow ==
    /\ store.obs.acts < MaxPageActs
    /\ swing.obs.frames <= MaxPhaseFrames
    /\ settle.obs.frames <= MaxPhaseFrames

\* onDragStart: EditorPage.handleDragStart; the drag overlay mounts afterwards, so
\* the hook's handleDragStart does not see the event
AppDragStart ==
    /\ store.activeBlockId = NULL
    /\ store.obs.drags < MaxDrags
    /\ settle.obs.frames <= MaxPhaseFrames
    /\ \E active \in Blocks :
        \E s1 \in {[PageHandleDragStart(Began(store, "start"), active) EXCEPT
                        !.obs.drags = @ + 1, !.obs.acts = 0]} :
            /\ store' = s1
            /\ swing' = RenderDragOverlay(swing, s1)
            /\ settle' = RenderSettlingOverlay(settle, s1, AppTargetRect)
    /\ UNCHANGED besidesApp

\* onDragMove: the hook's handleDragMove
AppDragMove ==
    /\ store.activeBlockId # NULL /\ swing.mounted
    /\ AppActsNow
    /\ \E trackedPointer \in Pointers \cup {NoPoint}, delta \in Deltas,
          activatorPoint \in Pointers :
            swing' = handleDragMove(swing, trackedPointer, delta, activatorPoint)
    /\ store' = [Began(store, "move") EXCEPT !.obs.acts = @ + 1]
    /\ UNCHANGED settle
    /\ UNCHANGED besidesApp

\* onDragOver: EditorPage.handleDragOver; only the cards read the drop target
AppDragOver ==
    /\ store.activeBlockId # NULL
    /\ AppActsNow
    /\ \E over \in (Blocks \cup {NULL}) \ {store.overBlockId} :
            store' = [PageHandleDragOver(Began(store, "over"), store.activeBlockId, over)
                        EXCEPT !.obs.acts = @ + 1]
    /\ UNCHANGED <<swing, settle>>
    /\ UNCHANGED besidesApp

\* onDragEnd: EditorPage.handleDragEnd, then the hook's handleDragEnd, then the
\* render: the drag overlay unmounts and the settling overlay is rendered.
\* The drop is over the block the drop target names.
AppDragEnd ==
    /\ store.activeBlockId # NULL /\ swing.mounted
    /\ swing.obs.frames <= MaxPhaseFrames
    /\ \E measured \in Measurements :
        \E sw1 \in {handleDragEnd(swing, measured)} :
        \E s2 \in {[HookWritesTo(PageHandleDragEnd(Began(store, "end"), store.activeBlockId,
                                                   store.overBlockId),
                                 sw1.obs.storeWrites)
                        EXCEPT !.obs.ends = @ + 1]} :
            /\ store' = s2
            /\ swing' = RenderDragOverlay(sw1, s2)
            /\ settle' = RenderSettlingOverlay(settle, s2, AppTargetRect)
    /\ UNCHANGED besidesApp

\* onDragCancel: EditorPage.handleDragCancel, then the hook's handleDragEnd
AppDragCancel ==
    /\ store.activeBlockId # NULL /\ swing.mounted
    /\ swing.obs.frames <= MaxPhaseFrames
    /\ \E measured \in Measurements :
        \E sw1 \in {handleDragEnd(swing, measured)} :
        \E s2 \in {[HookWritesTo(PageHandleDragCancel(Began(store, "cancel")),
                                 sw1.obs.storeWrites)
                        EXCEPT !.obs.ends = @ + 1]} :
            /\ store' = s2
            /\ swing' = RenderDragOverlay(sw1, s2)
            /\ settle' = RenderSettlingOverlay(settle, s2, AppTargetRect)
    /\ UNCHANGED besidesApp

\* the settings panel writes the rotation spring of store.dragSwingSettings: the
\* hook's autorun re-runs and the settling overlay renders again
AppSettingsChange ==
    /\ AppActsNow
    /\ \E settings \in {s \in SwingSettings :
                            s.rotationSpring # store.dragSwingSettings.rotationSpring} :
        \E s1 \in {[Noted(setDragSwingSetting(Began(store, "settings"), "rotationSpring",
                                              settings.rotationSpring),
                          "panel", "setDragSwingSetting")
                        EXCEPT !.obs.acts = @ + 1]} :
            /\ store' = s1
            /\ swing' = IF swing.mounted
                        THEN SwingSettingsAutorun(swing, s1.dragSwingSettings)
                        ELSE swing
            /\ settle' = IF settle.mounted
                         THEN RenderSettlingOverlay(settle, s1, AppTargetRect)
                         ELSE settle
    /\ UNCHANGED besidesApp

\* the page renders again for a reason of its own (its parent rendered, a block
\* changed): the settling overlay receives a new onAnimationComplete
AppRerender ==
    /\ settle.mounted
    /\ AppActsNow
    /\ store' = [Began(store, "render") EXCEPT !.obs.acts = @ + 1]
    /\ settle' = RenderSettlingOverlay(settle, store, AppTargetRect)
    /\ UNCHANGED swing
    /\ UNCHANGED besidesApp

\* the browser delivers the pending frame callback of the drag overlay
AppSwingFrame ==
    /\ \E cb \in swing.rafQueue :
            swing' = [SwingRunFrame(SwingRebase(swing, 16), cb) EXCEPT
                        !.obs.frames = Min(@, MaxPhaseFrames + 1)]
    /\ settle' = SettleRebase(settle, 16)
    /\ UNCHANGED store
    /\ UNCHANGED besidesApp

\* the browser delivers the pending frame callback of the settling overlay
AppSettleFrame ==
    /\ \E cb \in settle.rafQueue, d \in SwingFrameDeltas :
            /\ d > 16 => settle.obs.stalls < MaxStalls
            /\ \E out \in {AppRunSettleFrame(settle, SwingRebase(swing, d), store, cb.id, d,
                                             d > 16, AppTargetRect)} :
                    /\ store' = out.store
                    /\ settle' = out.settle
                    /\ swing' = out.swing
    /\ UNCHANGED besidesApp

AppNext ==
    \/ AppDragStart \/ AppDragMove \/ AppDragOver \/ AppDragEnd \/ AppDragCancel
    \/ AppSettingsChange \/ AppRerender \/ AppSwingFrame \/ AppSettleFrame

SpecApp == AppInit /\ [][AppNext]_vars

\* The browser keeps delivering frames: a requested callback is eventually run
SpecAppFair == SpecApp /\ WF_vars(AppSwingFrame) /\ WF_vars(AppSettleFrame)

-----------------------------------------------------------------------------
(* Claims about the spring simulator (checked under SpecSpring)            *)

\* C10: the first step(now) after construction or after setCurrent(v) is a cold
\* start: whatever now is, it returns the unmoved value with done = false, records
\* the time and changes neither velocity nor target; setCurrent(v) sets the current
\* value to v, zeroes the velocity, leaves the target alone and makes the next step
\* a cold start (no setTarget or setConfig in between undoes that).
C10_ColdStartNoJump ==
    /\ call.op = "create" => spring.lastTime = NULL
    /\ call.op = "setCurrent" =>
            /\ spring.currentValue = call.arg
            /\ spring.currentVelocity = 0
            /\ spring.targetValue = call.before.targetValue
            /\ spring.lastTime = NULL
    /\ call.op \in {"setTarget", "setConfig"} => spring.lastTime = call.before.lastTime
    /\ (call.op = "step" /\ call.before.lastTime = NULL) =>
            /\ call.ret.value = call.before.currentValue
            /\ call.ret.done = FALSE
            /\ spring = [call.before EXCEPT !.lastTime = call.arg]

\* a cold step at a late timestamp, on a spring whose value setCurrent moved away
\* from its target
C10_Witness ==
    /\ call.op = "step"
    /\ call.before.lastTime = NULL
    /\ call.arg = 10016
    /\ call.before.currentValue = 10400
    /\ call.before.targetValue = 0
    /\ call.ret.value = 10400

\* what step returned to its caller
StepResult(r) == [value |-> r.value, velocity |-> r.velocity, done |-> r.done]

\* C11: a step whose timestamp lies more than 64 ms after the previous step returns
\* the value, velocity and done that a step exactly 64 ms after the previous step
\* returns from the same spring state.
C11_StepCappedAt64 ==
    (call.op = "step" /\ call.before.lastTime # NULL
        /\ call.arg - call.before.lastTime > MAX_STEP_MS) =>
            call.ret = StepResult(step(call.before, call.before.lastTime + MAX_STEP_MS))

\* a step 10000 ms after the previous one, on a spring that is moving
C11_Witness ==
    /\ call.op = "step" /\ call.before.lastTime # NULL
    /\ call.arg - call.before.lastTime = 10000
    /\ call.ret.value # call.before.currentValue
    /\ ~call.ret.done

\* C31: the timestep of a step is clamp(now - lastTime, 0, 64 ms): a step whose
\* timestamp is not later than that of the previous step returns what a step at the
\* previous step's own timestamp returns (an integration over 0 ms, which moves neither
\* the value nor the velocity).
C31_TimestepNeverNegative ==
    (call.op = "step" /\ call.before.lastTime # NULL
        /\ call.arg <= call.before.lastTime) =>
            call.ret = StepResult(step(call.before, call.before.lastTime))

\* the rest thresholds hold in the state s
WithinRestThresholds(s) ==
    /\ Abs(s.currentValue - s.targetValue) < s.configState.restDistance
    /\ Abs(s.currentVelocity) < s.configState.restSpeed

\* C12: a step that is not a cold start, made on a spring whose state satisfies
\* |current - target| < restDistance and |velocity| < restSpeed, returns exactly the
\* target and velocity 0 with done = true.
C12_SnapsOnceWithinThresholds ==
    (call.op = "step" /\ call.before.lastTime # NULL /\ WithinRestThresholds(call.before)) =>
        call.ret = [value |-> call.before.targetValue, velocity |-> 0, done |-> TRUE]

\* C14: a spring with positive stiffness and damping and a fixed target, stepped
\* again and again with increasing timestamps, eventually returns done = true with
\* its value equal to the target.
C14_EventuallyDone ==
    <>(call.op = "step" /\ call.ret.done /\ spring.currentValue = spring.targetValue)

-----------------------------------------------------------------------------
(* Claims about the Settle Controller (checked under SpecSettle)           *)

\* the callbacks of the current effect run that the browser still holds
SettleLivePending == {cb \in settle.rafQueue : cb.env.live}

\* C1: an effect run that is not torn down invokes onAnimationComplete exactly
\* once, whichever way it ends (all four springs done, watchdog, missing target):
\* never twice, once as soon as it has ended, and after that no frame of it is left
\* that could invoke it again; until it ends exactly one frame is pending.
C1_CompletesExactlyOnce ==
    /\ settle.obs.calls <= 1
    /\ settle.obs.exit # "none" => settle.obs.calls = 1 /\ SettleLivePending = {}
    /\ (settle.obs.ran = "loop" /\ settle.obs.exit = "none") =>
            settle.obs.calls = 0 /\ Cardinality(SettleLivePending) = 1

\* a run that ended by all four springs coming to rest, after several frames
C1_Witness ==
    /\ settle.obs.exit = "rest"
    /\ settle.obs.frames > 3
    /\ settle.obs.calls = 1
    /\ settle.rotation # 0

\* C2 (as claimed): with a channel that never rests the completion callback is
\* invoked exactly once within 120 frame callbacks or within 2000 ms after the
\* loop's first frame.
C2_WithinFramesOrTime ==
    settle.obs.exit = "watchdog" =>
        /\ settle.obs.calls = 1
        /\ \/ settle.obs.frames <= MAX_SETTLE_FRAMES
           \/ settle.obs.exitElapsed <= MAX_SETTLE_DURATION_MS

\* C2 (amended): the loop invokes the completion callback exactly once, at the first
\* frame callback that counts more than 120 frames or finds more than 2000 ms
\* elapsed since the loop's first frame, hence at the 121st callback at the latest.
C2_WatchdogAtFirstExcess ==
    /\ settle.obs.frames <= MAX_SETTLE_FRAMES + 1
    /\ settle.obs.exit = "watchdog" =>
            /\ settle.obs.calls = 1
            /\ \/ settle.obs.frames > MAX_SETTLE_FRAMES
               \/ settle.obs.exitElapsed > MAX_SETTLE_DURATION_MS
    /\ (settle.obs.ran = "loop" /\ settle.obs.exit = "none") =>
            /\ settle.obs.frames <= MAX_SETTLE_FRAMES
            /\ settle.obs.exitElapsed <= MAX_SETTLE_DURATION_MS

\* a rotation spring with stiffness 0 and damping 0, displaced from its target, is
\* ended by the watchdog at the 121st frame callback, more than 2000 ms in
C2_Witness ==
    /\ settle.settings.rotationSpring = NeverRestConfig
    /\ settle.rotation # 0
    /\ settle.obs.exit = "watchdog"
    /\ settle.obs.frames = MAX_SETTLE_FRAMES + 1
    /\ settle.obs.exitElapsed > MAX_SETTLE_DURATION_MS
    /\ settle.obs.calls = 1

\* where a spring is and where it is heading
Course(s) == <<s.currentValue, s.currentVelocity, s.targetValue>>

\* this step renders the overlay with other spring settings and nothing else changed
SettleSettingsChanged ==
    /\ settle.mounted /\ settle'.mounted
    /\ settle'.settings # settle.settings
    /\ settle'.rect = settle.rect /\ settle'.rect # NoRect
    /\ settle'.rotation = settle.rotation /\ settle'.scale = settle.scale
    /\ settle'.targetRect = settle.targetRect

\* C25: a change of the rotation- or scale-spring settings while a settle session is
\* in flight leaves the session's x, y, rotation and scale springs where they were:
\* the frame pending afterwards carries on from their values, velocities and targets.
C25_SettingsChangeKeepsSettleSprings ==
    [][SettleSettingsChanged =>
        \A old \in SettleLivePending :
            \E new \in {cb \in settle'.rafQueue : cb.env.live} :
                /\ Course(new.env.xSpring) = Course(old.env.xSpring)
                /\ Course(new.env.ySpring) = Course(old.env.ySpring)
                /\ Course(new.env.rotationSpring) = Course(old.env.rotationSpring)
                /\ Course(new.env.scaleSpring) = Course(old.env.scaleSpring)
    ]_vars

\* the session of the rendered overlay has completed, by rest or by the watchdog
SettleCompleted == settle.mounted /\ settle.obs.exit \in {"rest", "watchdog"}

\* C19 as stated: when a settle session completes, by rest or by the watchdog, the
\* container's translate is the target slot's left/top and the wrapper's transform
\* is scale 1, rotate 0deg.
C19_FinalTranslateIsSlotCorner ==
    SettleCompleted =>
        /\ settle.containerTransform = [x |-> settle.targetRect.left, y |-> settle.targetRect.top]
        /\ settle.wrapperTransform = [scale |-> 10000, rotate |-> 0]

\* C19 as the code has it: the translate puts the centre of the dropped rect on the
\* centre of the target slot, which is the slot's left/top when the two have the
\* same size; the wrapper's transform is scale 1, rotate 0deg.
C19_FinalStylesCentreOnSlot ==
    SettleCompleted =>
        /\ settle.containerTransform =
                [x |-> settle.targetRect.left + Quot(settle.targetRect.width, 2)
                            - Quot(settle.rect.width, 2),
                 y |-> settle.targetRect.top + Quot(settle.targetRect.height, 2)
                            - Quot(settle.rect.height, 2)]
        /\ (settle.targetRect.width = settle.rect.width
                /\ settle.targetRect.height = settle.rect.height) =>
                    settle.containerTransform =
                        [x |-> settle.targetRect.left, y |-> settle.targetRect.top]
        /\ settle.wrapperTransform = [scale |-> 10000, rotate |-> 0]

\* a session ended by the watchdog with the rotation still away from rest, on a slot
\* larger than the dropped rect
C19_Witness ==
    /\ settle.obs.exit = "watchdog"
    /\ settle.targetRect.width > settle.rect.width
    /\ settle.settings.rotationSpring = NeverRestConfig
    /\ settle.rotation # 0
    /\ settle.containerTransform.x = 550000

\* C7: when the effect runs and no element carries the settling-target marker, it
\* invokes the completion callback at once, steps no spring and schedules no frame.
C7_MissingTargetCompletesAtOnce ==
    (SettleRefsAttached(settle) /\ settle.targetRect = NoRect) =>
        /\ settle.obs.ran = "missing"
        /\ settle.obs.calls = 1
        /\ ~settle.obs.stepped
        /\ settle.obs.frames = 0
        /\ SettleLivePending = {}
        /\ settle.animationFrameRef = NULL

\* the effect ran with a captured rectangle and no target element
C7_Witness ==
    /\ SettleRefsAttached(settle)
    /\ settle.targetRect = NoRect
    /\ settle.obs.ran = "missing"
    /\ settle.obs.calls = 1

-----------------------------------------------------------------------------
(* Claims about the Drag-Swing Controller (checked under SpecSwing)        *)

\* the frame callbacks of the mounted overlay that are still to run
SwingLivePending == {cb \in swing.rafQueue : cb.live}

\* Idle: mounted, neither dragging nor settling, no loop
SwingIdle ==
    /\ swing.mounted /\ ~swing.isDraggingRef /\ ~swing.isSettlingRef
    /\ swing.springAnimationFrameRef = NULL /\ SwingLivePending = {}

\* C3: while Settling, the first frame callback that counts more than 120 settling
\* frames or finds more than 2000 ms elapsed since settling began puts both springs
\* at rest (rotation 0, scale 1, current and target), writes rotation 0 and scale 1
\* to the rendered properties, leaves Settling, clears the loop-active marker and
\* schedules no frame; a frame callback that stays in Settling has counted at most
\* 120 frames within 2000 ms.
C3_WatchdogForcesRest ==
    /\ (swing.obs.handler = "frame" /\ swing.obs.exit = "watchdog") =>
            /\ swing.rotationSpringRef.currentValue = 0
            /\ swing.rotationSpringRef.targetValue = 0
            /\ swing.scaleSpringRef.currentValue = REST_SCALE
            /\ swing.scaleSpringRef.targetValue = REST_SCALE
            /\ swing.motionRotate = 0 /\ swing.motionScale = REST_SCALE
            /\ ~swing.isSettlingRef
            /\ swing.springAnimationFrameRef = NULL
            /\ SwingLivePending = {}
    /\ (swing.obs.handler = "frame" /\ swing.isSettlingRef) =>
            /\ swing.settleFrameCountRef <= MAX_SETTLE_FRAMES
            /\ PerformanceNow - swing.settleStartTimeRef <= MAX_SETTLE_DURATION_MS
            /\ Cardinality(SwingLivePending) = 1

\* the 121st settling frame has just forced the rest
C3_Witness ==
    /\ swing.obs.handler = "frame" /\ swing.obs.exit = "watchdog"
    /\ swing.obs.frames = MAX_SETTLE_FRAMES + 1

\* C4: at most one frame callback of a controller's loop is scheduled at any time.
\* In the Drag-Swing Controller the loop-active marker is set exactly while a frame
\* is scheduled and names that frame, so a start request made while it is set adds
\* none; in the variant that restarts on every move the only scheduled frame
\* belongs to the latest animateSpring call, the earlier one having been cancelled.
C4_AtMostOneFrame ==
    /\ Cardinality(swing.rafQueue) <= 1
    /\ (swing.springAnimationFrameRef # NULL) <=> (swing.rafQueue # {})
    /\ \A cb \in swing.rafQueue : cb.id = swing.springAnimationFrameRef
    /\ Cardinality(variant.rafQueue) <= 1
    /\ \A cb \in variant.rafQueue : cb.loop = variant.cleanupRef

\* a drag end asked for the loop while it was running: the springs kept their clock
C4_Witness ==
    /\ swing.obs.handler = "end"
    /\ swing.springAnimationFrameRef # NULL
    /\ swing.rotationSpringRef.lastTime # NULL

\* C5: with frames delivered, a controller that is Settling reaches Idle (or a new
\* drag starts, or the overlay is removed), whatever the spring configuration
C5_SettlingEnds ==
    (swing.mounted /\ swing.isSettlingRef) ~>
        (SwingIdle \/ swing.isDraggingRef \/ ~swing.mounted)

\* Idle again after settling with a rotation spring that never counts as at rest
C5_Witness ==
    /\ SwingIdle /\ swing.obs.exit = "watchdog"
    /\ swing.settingsRef.rotationSpring = NeverRestThresholds

-----------------------------------------------------------------------------
(* Claims about the editor page (checked under SpecApp and SpecAppFair)    *)

\* the store calls the hook of the drag overlay made in the event handled last
HookWrites == SelectSeq(store.obs.log, LAMBDA e : e.by = "hook")

\* no drag is active and no frame of the settling overlay is pending
\* C32: in every store state a block marked as settling has a captured rectangle:
\* settlingBlockId non-null implies dropAnimationRect non-null, also after startDrag
\* was called for a new drag before the previous settling completed.
C32_SettlingHasRect ==
    store.settlingBlockId # NULL => store.dropAnimationRect # NoRect

AppQuiet == store.activeBlockId = NULL /\ settle.rafQueue = {}

\* C6: while frames keep being delivered, a settlingBlockId that startSettling made
\* non-null returns to null (endDrag follows), whatever drag starts, settings
\* changes and renders come in between.
C6_SettlingReturnsToNull ==
    (store.settlingBlockId # NULL) ~> (store.settlingBlockId = NULL)

\* C8: a callback of a torn-down settle run or of an unmounted drag overlay is
\* neither left pending nor run: no late frame steps a spring, writes a transform
\* or invokes onAnimationComplete.
C8_TeardownCancelsFrames ==
    /\ \A cb \in settle.rafQueue : cb.env.live
    /\ \A cb \in swing.rafQueue : cb.live
    /\ ~settle.obs.lateFrame /\ ~settle.obs.lateCall /\ ~settle.obs.lateWrite
    /\ ~swing.obs.lateFrame /\ ~swing.obs.lateWrite

\* A drag started while the overlay was settling: the settle run was torn down with
\* its frame pending, after the drag overlay was torn down at the drop with its
\* loop running
C8_Witness ==
    /\ store.obs.handler = "start" /\ store.obs.ends >= 1
    /\ store.settlingBlockId # NULL /\ settle.mounted
    /\ settle.animationFrameRef = NULL /\ settle.rafQueue = {}
    /\ ~swing.obs.lateFrame

\* C9: handling an end or a cancel event, the hook calls startSettling once and
\* makes no other store call; and once nothing is in progress, endDrag has been
\* called once for each of these events.
C9_OnceStartedOnceEnded ==
    /\ store.obs.handler \in {"end", "cancel"} =>
            Len(HookWrites) = 1 /\ HookWrites[1].op = "startSettling"
    /\ store.obs.handler \notin {"end", "cancel"} => HookWrites = <<>>
    /\ AppQuiet => store.obs.endDrags = store.obs.ends

-----------------------------------------------------------------------------
(* Claims about runtime settings changes (checked under SpecSwing)         *)

\* value, velocity, target and last-step time of a spring
Motion(s) == <<s.currentValue, s.currentVelocity, s.targetValue, s.lastTime>>

\* C13: a settings change delivered to the controller replaces, through setConfig,
\* exactly the parameters the new settings name (the scale spring's mass, which they
\* do not name, stays) and leaves the value, velocity, target and last-step time of
\* both springs alone; it neither requests nor cancels a frame, and it changes
\* neither the phase, the settle clock and frame count, nor the written transform.
C13_SettingsChangeKeepsMotion ==
    [][SwingSettingsChange =>
        /\ Motion(swing'.rotationSpringRef) = Motion(swing.rotationSpringRef)
        /\ Motion(swing'.scaleSpringRef) = Motion(swing.scaleSpringRef)
        /\ swing'.rotationSpringRef.configState = swing'.settingsRef.rotationSpring
        /\ \A k \in DOMAIN swing'.settingsRef.scaleSpring :
                swing'.scaleSpringRef.configState[k] = swing'.settingsRef.scaleSpring[k]
        /\ swing'.scaleSpringRef.configState.mass = swing.scaleSpringRef.configState.mass
        /\ swing'.rafQueue = swing.rafQueue
        /\ swing'.springAnimationFrameRef = swing.springAnimationFrameRef
        /\ swing'.isDraggingRef = swing.isDraggingRef
        /\ swing'.isSettlingRef = swing.isSettlingRef
        /\ swing'.settleStartTimeRef = swing.settleStartTimeRef
        /\ swing'.settleFrameCountRef = swing.settleFrameCountRef
        /\ swing'.motionRotate = swing.motionRotate
        /\ swing'.motionScale = swing.motionScale]_vars

\* a settings change that reached the controller while its scale spring was moving
\* and its loop had a frame pending
C13_Witness ==
    /\ swing.obs.handler = "settings"
    /\ swing.rotationSpringRef.configState = NeverRestThresholds
    /\ swing.scaleSpringRef.lastTime # NULL
    /\ swing.scaleSpringRef.currentVelocity # 0
    /\ swing.springAnimationFrameRef # NULL

-----------------------------------------------------------------------------
(* Claims about the end of a drag (checked under SpecSwing)                *)

\* where a spring is on its way, apart from its target
Progress(s) == <<s.currentValue, s.currentVelocity, s.lastTime>>

\* C20: the handler of drag end and drag cancel sets the rotation target to 0 and the
\* scale target to 1, leaves Dragging and enters Settling with the settle frame
\* counter at 0, empties the position history, and leaves a running frame loop as
\* it is: the pending frame and its handle stay, and the springs keep their
\* values, velocities and clocks.
C20_DragEndKeepsLoop ==
    [][SwingDragEnd =>
        /\ swing'.rotationSpringRef.targetValue = 0
        /\ swing'.scaleSpringRef.targetValue = REST_SCALE
        /\ ~swing'.isDraggingRef /\ swing'.isSettlingRef
        /\ swing'.settleFrameCountRef = 0
        /\ swing'.positionHistoryRef = << >>
        /\ swing'.springAnimationFrameRef # NULL
        /\ swing.springAnimationFrameRef # NULL =>
                /\ swing'.springAnimationFrameRef = swing.springAnimationFrameRef
                /\ swing'.rafQueue = swing.rafQueue
                /\ Progress(swing'.rotationSpringRef) = Progress(swing.rotationSpringRef)
                /\ Progress(swing'.scaleSpringRef) = Progress(swing.scaleSpringRef)
    ]_vars

\* a drag just ended while the card was tilted and scaled up and its loop was
\* stepping
C20_Witness ==
    /\ swing.obs.handler = "end"
    /\ swing.isSettlingRef /\ ~swing.isDraggingRef
    /\ swing.settleStartTimeRef = PerformanceNow
    /\ swing.settleFrameCountRef = 0
    /\ swing.rotationSpringRef.lastTime # NULL
    /\ swing.rotationSpringRef.currentValue # 0
    /\ swing.scaleSpringRef.currentValue > REST_SCALE
    /\ swing.scaleSpringRef.currentVelocity # 0
    /\ swing.scaleSpringRef.targetValue = REST_SCALE
    /\ swing.rotationSpringRef.targetValue = 0
    /\ swing.springAnimationFrameRef # NULL

-----------------------------------------------------------------------------
(* Claims about the frame loop of the controller (checked under SpecSwing) *)

\* this step is the frame callback cb of the mounted hook, run d ms after the
\* previous one
FrameTaken(cb, d) ==
    /\ cb.live /\ swing.mounted
    /\ swing' = SwingRunFrame([SwingRebase(swing, d) EXCEPT
                                  !.obs.stalls = IF d > 16 THEN @ + 1 ELSE @], cb)

\* the loop-active marker is clear, the hook is not settling, no frame is scheduled
LoopStopped(sw) ==
    /\ sw.springAnimationFrameRef = NULL
    /\ ~sw.isSettlingRef
    /\ {cb \in sw.rafQueue : cb.live} = {}

\* the settle watchdog fires in a frame d ms after the previous one
WatchdogFires(sw, d) ==
    /\ sw.isSettlingRef
    /\ \/ sw.settleStartTimeRef # NULL /\ sw.settleFrameCountRef + 1 > MAX_SETTLE_FRAMES
       \/ sw.settleStartTimeRef # NULL
            /\ PerformanceNow - SwingRebase(sw, d).settleStartTimeRef > MAX_SETTLE_DURATION_MS

\* both springs report done in a frame d ms after the previous one
BothDone(sw, d) ==
    /\ step(SwingRebase(sw, d).rotationSpringRef, PerformanceNow).done
    /\ step(SwingRebase(sw, d).scaleSpringRef, PerformanceNow).done

\* C33: whenever the loop of the mounted controller is not active, the recorded
\* rotation and scale (which seed the springs at the next loop start) are the values
\* last written to the rendered rotation and scale properties, whichever way the loop
\* ended.
C33_RecordedEqualsRendered ==
    (swing.mounted /\ swing.springAnimationFrameRef = NULL) =>
        /\ swing.currentRotationRef = swing.motionRotate
        /\ swing.currentScaleRef = swing.motionScale

\* the same on the exit by natural rest alone
C33_RecordedEqualsRenderedAtRest ==
    (swing.mounted /\ swing.springAnimationFrameRef = NULL /\ swing.obs.exit # "watchdog") =>
        /\ swing.currentRotationRef = swing.motionRotate
        /\ swing.currentScaleRef = swing.motionScale

\* the state of the controller: Dragging = isDragging, Settling = isSettling, Idle =
\* neither
Phase(sw) ==
    IF sw.isDraggingRef /\ sw.isSettlingRef THEN "DraggingAndSettling"
    ELSE IF sw.isDraggingRef THEN "Dragging"
    ELSE IF sw.isSettlingRef THEN "Settling"
    ELSE "Idle"

\* C23 as stated: the state of the controller changes only along Idle->Dragging,
\* Dragging->Settling, Settling->Idle and Dragging->Idle, and it is never Dragging
\* and Settling at once.
C23_OnlyListedTransitions ==
    [][/\ Phase(swing') # "DraggingAndSettling"
       /\ Phase(swing') # Phase(swing) =>
            <<Phase(swing), Phase(swing')>> \in
                {<<"Idle", "Dragging">>, <<"Dragging", "Settling">>,
                 <<"Settling", "Idle">>, <<"Dragging", "Idle">>}
    ]_vars

\* C23 as the code has it: besides the four transitions a drag start that reaches
\* the controller while it is Settling takes it back to Dragging, and nothing else
\* does; Idle->Settling does not occur and the controller is never Dragging and
\* Settling at once.
C23_TransitionsWithRestart ==
    [][/\ Phase(swing') # "DraggingAndSettling"
       /\ Phase(swing') # Phase(swing) =>
            <<Phase(swing), Phase(swing')>> \in
                {<<"Idle", "Dragging">>, <<"Dragging", "Settling">>,
                 <<"Settling", "Idle">>, <<"Dragging", "Idle">>,
                 <<"Settling", "Dragging">>}
       /\ (Phase(swing) = "Settling" /\ Phase(swing') = "Dragging") =>
            (SwingDragStart /\ swing'.obs.handler = "start")
    ]_vars

\* a drag that started while the controller was settling, its loop still running
C23_Witness ==
    /\ swing.obs.handler = "start"
    /\ Phase(swing) = "Dragging"
    /\ swing.scaleSpringRef.lastTime # NULL
    /\ swing.scaleSpringRef.targetValue = swing.settingsRef.dragScale
    /\ swing.scaleSpringRef.currentValue # swing.scaleSpringRef.targetValue
    /\ swing.springAnimationFrameRef # NULL

\* C24: throughout Dragging the target of the scale spring is the dragScale of the
\* current settings.
C24_ScalePinnedAtDragScale ==
    (swing.mounted /\ swing.isDraggingRef) =>
        swing.scaleSpringRef.targetValue = swing.settingsRef.dragScale

\* C26: a move for which no pointer coordinates can be resolved (tracker empty, no
\* drag-start pointer, activator event without coordinates) is no update: the
\* position history and the rotation target stay as they were.
C26_UnresolvedMoveIsNoUpdate ==
    [][\A delta \in Deltas :
        (SwingDragMove /\ swing.dragStartPointerRef = NoPoint
            /\ swing' = handleDragMove(swing, NoPoint, delta, NoPoint)) =>
                /\ swing'.positionHistoryRef = swing.positionHistoryRef
                /\ swing'.rotationSpringRef.targetValue = swing.rotationSpringRef.targetValue
    ]_vars

\* C27: after every move the position history is in chronological order, ends with
\* the sample just recorded and holds only samples younger than the velocity window
\* relative to it; mount, drag start and drag end leave it empty.
C27_HistoryOrderedAndWindowed ==
    LET history == swing.positionHistoryRef
    IN  /\ swing.obs.handler = "move" =>
            /\ history # << >>
            /\ history[Len(history)].timestamp = PerformanceNow
            /\ \A i \in 1..(Len(history) - 1) :
                    history[i].timestamp <= history[i + 1].timestamp
            /\ \A i \in DOMAIN history :
                    history[Len(history)].timestamp - history[i].timestamp
                        < swing.settingsRef.velocityWindowMs
        /\ swing.obs.handler \in {"mount", "start", "end"} => history = << >>

\* a move that kept an earlier sample, taken at another place and time
C27_Witness ==
    /\ swing.obs.handler = "move"
    /\ Len(swing.positionHistoryRef) >= 2
    /\ swing.positionHistoryRef[1].timestamp < PerformanceNow
    /\ swing.positionHistoryRef[1].x # swing.positionHistoryRef[Len(swing.positionHistoryRef)].x

\* C22: while the hook is Dragging every frame callback steps both springs, writes
\* both rendered properties and schedules the next frame, whether or not a move came
\* since the previous frame and whether or not both springs report done; the
\* watchdog does not end the loop, and the hook stays Dragging.
C22_DraggingKeepsLoop ==
    [][\A cb \in swing.rafQueue, d \in SwingFrameDeltas :
        (FrameTaken(cb, d) /\ swing.isDraggingRef) =>
            LET before        == SwingRebase(swing, d)
                rotationState == step(before.rotationSpringRef, PerformanceNow)
                scaleState    == step(before.scaleSpringRef, PerformanceNow)
            IN  /\ swing'.rotationSpringRef = rotationState.spring
                /\ swing'.scaleSpringRef = scaleState.spring
                /\ swing'.motionRotate = rotationState.value
                /\ swing'.motionScale = scaleState.value
                /\ swing'.springAnimationFrameRef # NULL
                /\ \E next \in swing'.rafQueue :
                        /\ next.live /\ next.id = swing'.springAnimationFrameRef
                        /\ next \notin swing.rafQueue \ {cb}
                /\ swing'.isDraggingRef /\ ~swing'.isSettlingRef
                /\ swing'.obs.exit # "watchdog"
    ]_vars

\* a frame of a drag held still at drag scale 1: both springs were at rest in it,
\* and the next frame is pending
C22_Witness ==
    /\ swing.obs.handler = "frame"
    /\ swing.isDraggingRef
    /\ swing.obs.frames = MaxPhaseFrames
    /\ swing.rotationSpringRef.lastTime # NULL
    /\ WithinRestThresholds(swing.rotationSpringRef)
    /\ WithinRestThresholds(swing.scaleSpringRef)
    /\ swing.motionScale = REST_SCALE /\ swing.motionRotate = 0
    /\ swing.springAnimationFrameRef # NULL

\* C21: once dragging has ended, a frame in which the watchdog does not fire stops
\* the loop (marker cleared, Settling left, no further frame scheduled) exactly when
\* both springs report done in it; so the loop stops at the first such frame and at
\* no earlier one.
C21_StopsWhenBothDone ==
    [][\A cb \in swing.rafQueue, d \in SwingFrameDeltas :
        (FrameTaken(cb, d) /\ ~swing.isDraggingRef /\ ~WatchdogFires(swing, d)) =>
            /\ swing.isSettlingRef
            /\ LoopStopped(swing') <=> BothDone(swing, d)
            /\ ~LoopStopped(swing') =>
                    /\ swing'.isSettlingRef
                    /\ swing'.springAnimationFrameRef # NULL
                    /\ Cardinality({c \in swing'.rafQueue : c.live}) = 1
    ]_vars

\* a loop that stopped on both springs resting, several frames after the drag ended
\* with the card scaled up
C21_Witness ==
    /\ swing.obs.handler = "frame"
    /\ swing.obs.exit = "rest"
    /\ swing.obs.frames > 3
    /\ LoopStopped(swing)
    /\ swing.mounted /\ ~swing.isDraggingRef

-----------------------------------------------------------------------------
(* Claims about the velocity estimate (checked under SpecVelocity)         *)

\* the samples of history whose age relative to the newest exceeds the window
OutsideWindow(history, windowMs) ==
    {i \in DOMAIN history :
        history[Len(history)].timestamp - history[i].timestamp > windowMs}

\* the most recent of them, or the oldest sample when there is none
Baseline(history, windowMs) ==
    IF OutsideWindow(history, windowMs) = {} THEN 1
    ELSE CHOOSE i \in OutsideWindow(history, windowMs) :
            \A j \in OutsideWindow(history, windowMs) : j <= i

\* C15: for a history of two or more samples the estimate takes as baseline the
\* most recent sample whose age relative to the newest strictly exceeds the window,
\* or the oldest sample when there is none, and returns per axis the difference
\* between the newest sample and the baseline divided by the seconds between them
\* (the case of no time between them is the degenerate case, which returns zero).
C15_BaselineAndQuotient ==
    (call.op = "calculateVelocityFromHistory" /\ Len(call.arg.history) >= 2) =>
        LET history  == call.arg.history
            latest   == history[Len(history)]
            baseline == history[Baseline(history, call.arg.windowMs)]
            deltaMs  == latest.timestamp - baseline.timestamp
        IN  IF deltaMs = 0 THEN call.ret = [x |-> 0, y |-> 0]
            ELSE call.ret = [x |-> Quot((latest.x - baseline.x) * 1000, deltaMs),
                             y |-> Quot((latest.y - baseline.y) * 1000, deltaMs)]

\* a history with a sample outside the window that is neither the oldest sample nor
\* the one before the newest, and a pointer that moved
C15_Witness ==
    /\ call.op = "calculateVelocityFromHistory"
    /\ Len(call.arg.history) = MaxHistory
    /\ Baseline(call.arg.history, call.arg.windowMs) = 2
    /\ call.arg.windowMs = 50
    /\ call.ret.x < 0 /\ call.ret.y > 0

\* the history (x=0,t=0), (x=5,t=40), (x=12,t=90), (x=20,t=150)
ScenarioHistory ==
    << [x |-> 0,      y |-> 300000, timestamp |-> 0],
       [x |-> 50000,  y |-> 250000, timestamp |-> 40],
       [x |-> 120000, y |-> 180000, timestamp |-> 90],
       [x |-> 200000, y |-> 100000, timestamp |-> 150] >>

ScenarioCalled ==
    /\ call.op = "calculateVelocityFromHistory"
    /\ call.arg = [history |-> ScenarioHistory, windowMs |-> VELOCITY_WINDOW_MS]

\* C16 as stated: for the scenario history and a 100 ms window the estimate uses the
\* sample at t=0 as baseline and returns (20-0)/((150-0)/1000) = 133.33 px/s.
C16_BaselineAtZero ==
    ScenarioCalled => call.ret.x = Quot((200000 - 0) * 1000, 150 - 0)

\* C16 as the code has it: the baseline is the sample at t=40, the most recent one
\* older than 100 ms, and the estimate is (20-5)/((150-40)/1000) = 136.36 px/s.
C16_BaselineAtForty ==
    ScenarioCalled =>
        /\ Baseline(call.arg.history, call.arg.windowMs) = 2
        /\ call.ret.x = Quot((200000 - 50000) * 1000, 150 - 40)
        /\ call.ret.x = 1363636

C16_Witness == ScenarioCalled /\ call.ret.x > 1333333

\* C28: the estimate is {x: 0, y: 0} for a history of fewer than two samples and
\* when no time lies between the newest sample and the baseline.
C28_ZeroWithoutElapsedTime ==
    (call.op = "calculateVelocityFromHistory") =>
        LET history == call.arg.history
        IN  /\ Len(history) < 2 => call.ret = [x |-> 0, y |-> 0]
            /\ (Len(history) >= 2
                    /\ history[Len(history)].timestamp
                        = history[Baseline(history, call.arg.windowMs)].timestamp)
                    => call.ret = [x |-> 0, y |-> 0]

\* samples at different places that carry the same timestamp
C28_Witness ==
    /\ call.op = "calculateVelocityFromHistory"
    /\ Len(call.arg.history) >= 2
    /\ call.arg.history[Len(call.arg.history)].timestamp = call.arg.history[1].timestamp
    /\ call.arg.history[Len(call.arg.history)].x # call.arg.history[1].x
    /\ call.ret = [x |-> 0, y |-> 0]

\* C34: after every move of the controller no retained sample is older than the
\* velocity window relative to the newest, so the backward scan of the estimator runs
\* to the front of the history without taking its 'age exceeds window' exit, and the
\* rotation target is the rotation of the velocity measured against the oldest
\* retained sample.
C34_VelocityAgainstOldestRetained ==
    swing.obs.handler = "move" =>
        LET history == swing.positionHistoryRef
            windowMs == swing.settingsRef.velocityWindowMs
            latest  == history[Len(history)]
            oldest  == history[1]
            deltaMs == latest.timestamp - oldest.timestamp
            velocityX == IF Len(history) < 2 \/ deltaMs = 0 THEN 0
                         ELSE Quot((latest.x - oldest.x) * 1000, deltaMs)
        IN  /\ OutsideWindow(history, windowMs) = {}
            /\ ScanBaseline(history, windowMs, Len(history)) = 1
            /\ swing.rotationSpringRef.targetValue =
                    velocityToRotation(velocityX, swing.settingsRef.velocityScale,
                                       swing.settingsRef.maxRotation)

\* a move that measured a velocity against the oldest of three retained samples
C34_Witness ==
    /\ swing.obs.handler = "move"
    /\ Len(swing.positionHistoryRef) >= 3
    /\ swing.positionHistoryRef[1].timestamp < swing.positionHistoryRef[2].timestamp
    /\ swing.positionHistoryRef[2].timestamp < PerformanceNow
    /\ swing.rotationSpringRef.targetValue # 0

\* C17: velocityToRotation(vx, scale, max) is -vx*scale when |vx*scale| <= max, and
\* otherwise has magnitude exactly max and the sign of -vx; so the result never
\* exceeds max in magnitude and its sign is opposite to that of vx.  A velocity of
\* 1000 px/s at scale 0.005 and limit 45 gives -5, one of 20000 px/s gives -45.
C17_RotationClamped ==
    (call.op = "velocityToRotation") =>
        LET vx      == call.arg.velocityX
            max     == call.arg.maxRotation
            product == Times(vx, call.arg.velocityScale)
        IN  /\ (Abs(product) <= max) => (call.ret = -product)
            /\ (Abs(product) > max) => (Abs(call.ret) = max /\ Sign(call.ret) = Sign(-vx))
            /\ Abs(call.ret) <= max
            /\ Sign(call.ret) = -Sign(vx)
            /\ (vx = 10000000 /\ call.arg.velocityScale = 50 /\ max = 450000)
                    => (call.ret = -50000)
            /\ (vx = 200000000 /\ call.arg.velocityScale = 50 /\ max = 450000)
                    => (call.ret = -450000)

C17_Witness ==
    /\ call.op = "velocityToRotation"
    /\ call.arg = [velocityX |-> 200000000, velocityScale |-> VELOCITY_SCALE,
                   maxRotation |-> MAX_ROTATION]
    /\ call.ret = -MAX_ROTATION

-----------------------------------------------------------------------------
(* Claims about the pointer tracker (checked under SpecPointer)            *)

\* the calls of log that set non-null coordinates after the last clear
SetsSinceClear(log) ==
    {i \in DOMAIN log :
        /\ log[i].op = "setPointerPosition" /\ log[i].arg # NoPoint
        /\ \A j \in DOMAIN log : log[j].op = "clearPointerPosition" => j < i}

\* the argument of the most recent of them, or null
LastSetSinceClear(log) ==
    IF SetsSinceClear(log) = {} THEN NoPoint
    ELSE log[CHOOSE i \in SetsSinceClear(log) : \A j \in SetsSinceClear(log) : j <= i].arg

\* C18: after any sequence of tracker calls the slot, and so what getPointerPosition
\* returns, is the argument of the most recent setPointerPosition with non-null
\* coordinates since the last clearPointerPosition, or null when there is none; a
\* setPointerPosition(null) leaves the slot as it was.
C18_SlotHoldsLastSet ==
    /\ getPointerPosition(tracker.lastPointerPosition) = LastSetSinceClear(tracker.log)
    /\ (tracker.log # << >> /\ tracker.log[Len(tracker.log)].op = "getPointerPosition")
            => (tracker.ret = LastSetSinceClear(tracker.log))
    /\ (tracker.log # << >>
            /\ tracker.log[Len(tracker.log)] = [op |-> "setPointerPosition", arg |-> NoPoint])
            => (tracker.lastPointerPosition = tracker.before)

\* coordinates set, null set, and the coordinates read back
C18_Witness ==
    /\ Len(tracker.log) = 3
    /\ tracker.log[1].op = "setPointerPosition" /\ tracker.log[1].arg # NoPoint
    /\ tracker.log[2] = [op |-> "setPointerPosition", arg |-> NoPoint]
    /\ tracker.log[3].op = "getPointerPosition"
    /\ tracker.ret = tracker.log[1].arg


-----------------------------------------------------------------------------
(* Claims about the tracked sensor (checked under SpecSensor)              *)

Delivered(name) == {i \in 1..Len(sensor.delivered) : sensor.delivered[i].name = name}

\* C29: when a gesture ends or is cancelled the tracker slot is cleared before onEnd
\* or onCancel is delivered: every such callback was delivered with getPointerPosition()
\* returning null, and while no gesture is attached the slot stays null.
C29_ClearedBeforeEndDelivered ==
    /\ \A i \in Delivered("onEnd") \cup Delivered("onCancel") :
            sensor.delivered[i].slot = NoPoint
    /\ ~sensor.attached => getPointerPosition(tracker.lastPointerPosition) = NoPoint

\* a gesture that had written a position ended by mouseup / touchend, and another that
\* had written one was cancelled
C29_Witness ==
    /\ sensor.obs.handler \in {"end", "cancel"}
    /\ tracker.before # NoPoint
    /\ tracker.log[Len(tracker.log)].op = "clearPointerPosition"
    /\ tracker.lastPointerPosition = NoPoint
    /\ sensor.delivered[Len(sensor.delivered)].name \in {"onEnd", "onCancel"}
    /\ Delivered("onEnd") # {} /\ Delivered("onCancel") # {}

\* the onMove at position i of s.delivered follows an onStart of the same gesture
AfterStart(s, i) ==
    \E j \in 1..(i - 1) :
        /\ s.delivered[j].name = "onStart"
        /\ \A m \in (j + 1)..(i - 1) : s.delivered[m].name = "onMove"

\* C30: under an activation constraint a move received before activation hands its
\* coordinates to setPointerPosition (and, where the sensor stays pending, the slot
\* holds them), delivers no onMove and leaves the event's default action alone; every
\* onMove follows the onStart of its gesture, and preventDefault is called only for a
\* cancelable move received by an activated sensor.
C30_PendingMovesOnlyTrack ==
    [][ /\ (SensorMove /\ ~sensor.activated /\ sensor.activationConstraint # NoConstraint) =>
            /\ Len(tracker'.log) > Len(tracker.log)
            /\ tracker'.log[Len(tracker.log) + 1] =
                    [op |-> "setPointerPosition", arg |-> getEventCoordinates(sensor'.obs.event)]
            /\ (sensor'.attached /\ ~sensor'.activated
                    /\ getEventCoordinates(sensor'.obs.event) # NoPoint) =>
                    tracker'.lastPointerPosition = getEventCoordinates(sensor'.obs.event)
            /\ \A i \in (Len(sensor.delivered) + 1)..Len(sensor'.delivered) :
                    sensor'.delivered[i].name # "onMove"
            /\ ~sensor'.obs.prevented
        /\ \A i \in 1..Len(sensor'.delivered) :
                sensor'.delivered[i].name = "onMove" => AfterStart(sensor', i)
        /\ sensor'.obs.prevented =>
                /\ sensor'.obs.handler = "move"
                /\ sensor'.obs.activatedBefore
                /\ sensor'.obs.event.cancelable
                /\ sensor'.delivered[Len(sensor'.delivered)].name = "onMove"
                /\ AfterStart(sensor', Len(sensor'.delivered)) ]_vars

\* under a distance constraint a move was tracked while pending, a farther one
\* activated the sensor, and a cancelable one was then delivered and suppressed
C30_Witness ==
    /\ DOMAIN sensor.activationConstraint = {"distance"}
    /\ sensor.obs.handler = "move" /\ sensor.obs.activatedBefore /\ sensor.obs.prevented
    /\ Len(sensor.delivered) = 4
    /\ sensor.delivered[1].name = "onPending"
    /\ sensor.delivered[2].name = "onPending"
    /\ sensor.delivered[2].slot # NoPoint
    /\ sensor.delivered[3].name = "onStart"
    /\ sensor.delivered[4].name = "onMove"

TerminalCallbacks == {"onEnd", "onCancel"}

\* C35: each sensor instance delivers exactly one terminal callback (onEnd or
\* onCancel) once its gesture has ended, never a second one, and no callback at all
\* after it.
C35_OneTerminalCallback ==
    /\ \A i \in 1..Len(sensor.delivered) :
            sensor.delivered[i].name \in TerminalCallbacks =>
                \A j \in (i + 1)..Len(sensor.delivered) :
                    sensor.delivered[j].of # sensor.delivered[i].of
    /\ (sensor.instance > 0 /\ ~sensor.attached) =>
            \E i \in 1..Len(sensor.delivered) :
                /\ sensor.delivered[i].name \in TerminalCallbacks
                /\ sensor.delivered[i].of = sensor.instance

\* C36: each sensor instance delivers onStart at most once, whatever its activation
\* constraint, and never after its terminal callback; no activation timer is pending
\* once the gesture has ended or been cancelled.
C36_StartAtMostOnce ==
    /\ \A i \in 1..Len(sensor.delivered), j \in 1..Len(sensor.delivered) :
            (i < j /\ sensor.delivered[i].of = sensor.delivered[j].of
                /\ sensor.delivered[j].name = "onStart") =>
                    sensor.delivered[i].name \notin TerminalCallbacks \cup {"onStart"}
    /\ ~sensor.attached => ~sensor.timerPending

-----------------------------------------------------------------------------
(* Claims about the pragmatic page (checked under SpecPragmatic)           *)

\* the store calls the page made while handling the last event
PageCalls(op) ==
    {i \in 1..Len(store.obs.log) : store.obs.log[i] = [by |-> "page", op |-> op]}

\* the last drop had a destination other than the source, both on the page
DropOnOther ==
    /\ store.obs.handler = "drop"
    /\ store.obs.drop.destination \notin {NULL, store.obs.drop.source}
    /\ indexOf(store.obs.drop.sortedBefore, store.obs.drop.source) # -1
    /\ indexOf(store.obs.drop.sortedBefore, store.obs.drop.destination) # -1

\* C37: every drop handled by the monitor calls exactly one of endDrag and
\* startSettling and clears the drop target, so that afterwards activeBlockId,
\* overBlockId and dropPosition are null; startSettling is called only for a drop on
\* another block with both indices found and the overlay rectangle captured.
C37_DropEndsOrSettles ==
    store.obs.handler = "drop" =>
        /\ Cardinality(PageCalls("endDrag")) + Cardinality(PageCalls("startSettling")) = 1
        /\ PageCalls("clearDropTarget") # {}
        /\ store.activeBlockId = NULL
        /\ store.overBlockId = NULL
        /\ store.dropPosition = "null"
        /\ PageCalls("startSettling") # {} =>
                (DropOnOther /\ store.obs.drop.capturedRect # NoRect)

\* a drop on another block, after the drop target was set, that reordered the page and
\* started the settling
C37_Witness ==
    /\ store.obs.handler = "drop"
    /\ PageCalls("reorderBlocks") # {}
    /\ PageCalls("startSettling") # {}
    /\ store.settlingBlockId = store.obs.drop.source
    /\ store.dropAnimationRect = store.obs.drop.capturedRect

\* array without its entries equal to item
Without(array, item) ==
    LET kept == {i \in DOMAIN array : array[i] # item}
    IN  [n \in 1..Cardinality(kept) |->
            array[CHOOSE i \in kept : Cardinality({j \in kept : j < i}) = n - 1]]

\* C38: after a drop of S on another block D of the page, S stands immediately before
\* D for the top edge and immediately after D for the bottom edge, the other blocks
\* of the page keep their relative order, the page's blocks carry the distinct orders
\* 0..n-1, blocks of other pages are as before, and reorderBlocks was not called when
\* the order of the page is the one before the drop.
C38_DropPlacesSourceAtEdge ==
    DropOnOther =>
        LET S      == store.obs.drop.source
            D      == store.obs.drop.destination
            before == store.obs.drop.sortedBefore
            after  == sortedIds(store)
        IN  /\ store.obs.drop.closestEdge = "top" =>
                    indexOf(after, S) = indexOf(after, D) - 1
            /\ store.obs.drop.closestEdge = "bottom" =>
                    indexOf(after, S) = indexOf(after, D) + 1
            /\ Without(after, S) = Without(before, S)
            /\ {store.blocksData[b].order : b \in pageBlocks(store)}
                    = 0..(Cardinality(pageBlocks(store)) - 1)
            /\ \A b, c \in pageBlocks(store) :
                    b # c => store.blocksData[b].order # store.blocksData[c].order
            /\ \A b \in DOMAIN store.blocksData \ pageBlocks(store) :
                    store.blocksData[b] = store.obs.drop.dataBefore[b]
            /\ after = before => PageCalls("reorderBlocks") = {}
            /\ after # before => PageCalls("reorderBlocks") # {}

\* the first block of the page dropped on the top edge of the last
C38_Witness ==
    /\ DropOnOther
    /\ store.obs.drop.closestEdge = "top"
    /\ indexOf(store.obs.drop.sortedBefore, store.obs.drop.source) = 0
    /\ indexOf(store.obs.drop.sortedBefore, store.obs.drop.destination) = 2
    /\ indexOf(sortedIds(store), store.obs.drop.source) = 1
    /\ PageCalls("reorderBlocks") # {}

=============================================================================
